---- MODULE Spec2Model ----
(***************************************************************************)
(* A model of dwm (src/dwm.c): the monitor list, the per-monitor client    *)
(* list and focus stack, tags, focus, fullscreen, the master/stack tiling   *)
(* with gaps, ICCCM size hints, and the EWMH root properties.               *)
(*                                                                          *)
(* The state of the window manager is held in the variables below.  Every   *)
(* C function is an operator from a state record (St) to a state record,    *)
(* so that a handler that calls focus(), arrange() ... is the composition   *)
(* of the operators it calls, in the order of the code.  An action applies  *)
(* one handler to St and commits the record it returns.  Then(v, F) names   *)
(* an intermediate value: Then(e, LAMBDA x : b) is b with x bound to e.     *)
(*                                                                          *)
(* Linked lists (Client.next from Monitor.clients, Client.snext from        *)
(* Monitor.stack, Monitor.next from mons) are sequences; a Client* is the   *)
(* client's window id, a Monitor* is the monitor's position in mons (only   *)
(* the tail of the monitor list is ever added or removed while running).    *)
(* C ints are TLA+ integers; TLC's integers are 32 bit two's complement,    *)
(* so a C unsigned int is held as the int with the same bit pattern.        *)
(***************************************************************************)
EXTENDS Integers, Sequences, FiniteSets, TLC

VARIABLES
    mons,           \* the monitor list, head first (Monitor *mons)
    selmon,         \* the selected monitor (Monitor *selmon)
    clients,        \* the Client records, by window
    sw, sh,         \* X display screen geometry
    bh,             \* global bar height
    combo,          \* combo chord flag
    running,        \* main-loop flag
    xfocus,         \* window last given to XSetInputFocus
    netactive,      \* root property _NET_ACTIVE_WINDOW (None: deleted)
    netclientlist,  \* root property _NET_CLIENT_LIST
    grab,           \* button-grab mode of each managed window
    pointergrab,    \* whether the active pointer grab of XGrabPointer is held
    probe           \* position and saved values of a scripted call sequence

vars == <<mons, selmon, clients, sw, sh, bh, combo, running, xfocus,
          netactive, netclientlist, grab, pointergrab, probe>>

-----------------------------------------------------------------------------
(* Bounds of the model *)

MaxWin == 2
MaxMons == 2
NumTags == 2
MaxTiles == 4
MaxBarMaps == 2

(* Program constants (config section of dwm.c) *)

borderpx == 0
gappx == 10
snap == 32
mfact == 55
nmaster == 1
resizehints == 1

None == 0
Root == -1
NULL == 0

Windows == 1..MaxWin
BarWin == MaxWin + MaxTiles + 1
TAGMASK == 2^NumTags - 1

-----------------------------------------------------------------------------
(* C arithmetic *)

MAX(a, b) == IF a > b THEN a ELSE b
MIN(a, b) == IF a < b THEN a ELSE b
abs(a) == IF a < 0 THEN -a ELSE a

\* C integer division and remainder truncate toward zero.
CDiv(a, b) ==
    IF (a >= 0) = (b > 0) THEN abs(a) \div abs(b) ELSE -(abs(a) \div abs(b))
CRem(a, b) == a - b * CDiv(a, b)

IntMax == 2147483647
IntMin == -IntMax - 1

\* a + b modulo 2^32, on 32-bit two's complement values.
AddWrap(a, b) ==
    IF a >= 0 /\ b >= 0 /\ a > IntMax - b
    THEN ((a - IntMax) - 1) + ((b - IntMax) - 1)
    ELSE IF a < 0 /\ b < 0 /\ a < IntMin - b
    THEN ((a + IntMax) + 1) + ((b + IntMax) + 1)
    ELSE a + b
Neg32(a) == IF a = IntMin THEN IntMin ELSE -a
SubWrap(a, b) == AddWrap(a, Neg32(b))

\* Unsigned 32-bit division a / k for a small positive k; a and the result
\* are held as the int with the same bit pattern.
UDiv(a, k) ==
    IF a >= 0 THEN a \div k
    ELSE IF k = 1 THEN a
    ELSE LET lo == (IntMax + a) + 1           \* a as unsigned is 2^31 + lo
             q0 == IntMax \div k              \* 2^31 = q0 * k + r0
             r0 == (IntMax % k) + 1
         IN  q0 + (lo \div k) + ((r0 + (lo % k)) \div k)
\* Unsigned comparison a < b.
ULess(a, b) ==
    IF (a >= 0) = (b >= 0) THEN a < b ELSE a >= 0

\* Bitwise operators on tag masks.
RECURSIVE BitAnd(_, _)
BitAnd(a, b) ==
    IF a = 0 \/ b = 0 THEN 0
    ELSE (IF a % 2 = 1 /\ b % 2 = 1 THEN 1 ELSE 0) + 2 * BitAnd(a \div 2, b \div 2)
RECURSIVE BitOr(_, _)
BitOr(a, b) ==
    IF a = 0 THEN b ELSE IF b = 0 THEN a
    ELSE (IF a % 2 = 1 \/ b % 2 = 1 THEN 1 ELSE 0) + 2 * BitOr(a \div 2, b \div 2)
RECURSIVE BitXor(_, _)
BitXor(a, b) ==
    IF a = 0 THEN b ELSE IF b = 0 THEN a
    ELSE (IF (a % 2) # (b % 2) THEN 1 ELSE 0) + 2 * BitXor(a \div 2, b \div 2)

-----------------------------------------------------------------------------
(* Sequences as linked lists *)

RECURSIVE Remove(_, _)
Remove(seq, e) ==
    IF seq = <<>> THEN <<>>
    ELSE IF Head(seq) = e THEN Remove(Tail(seq), e)
    ELSE <<Head(seq)>> \o Remove(Tail(seq), e)

Range(seq) == {seq[i] : i \in 1..Len(seq)}
Count(seq, e) == Cardinality({i \in 1..Len(seq) : seq[i] = e})
Mem(seq, e) == \E i \in 1..Len(seq) : seq[i] = e
RECURSIVE Flatten(_)
Flatten(ss) == IF ss = <<>> THEN <<>> ELSE Head(ss) \o Flatten(Tail(ss))

-----------------------------------------------------------------------------
(* The state record *)

\* One statement after another: the value v, then the rest F of the body.
Then(v, F(_)) == F(v)

St == [mons |-> mons, selmon |-> selmon, clients |-> clients,
       sw |-> sw, sh |-> sh, bh |-> bh, combo |-> combo, running |-> running,
       xfocus |-> xfocus, netactive |-> netactive,
       netclientlist |-> netclientlist, grab |-> grab,
       pointergrab |-> pointergrab]

Commit(t) ==
    /\ mons' = t.mons
    /\ selmon' = t.selmon
    /\ clients' = t.clients
    /\ sw' = t.sw
    /\ sh' = t.sh
    /\ bh' = t.bh
    /\ combo' = t.combo
    /\ running' = t.running
    /\ xfocus' = t.xfocus
    /\ netactive' = t.netactive
    /\ netclientlist' = t.netclientlist
    /\ grab' = t.grab
    /\ pointergrab' = t.pointergrab

Start(t) ==
    /\ mons = t.mons
    /\ selmon = t.selmon
    /\ clients = t.clients
    /\ sw = t.sw
    /\ sh = t.sh
    /\ bh = t.bh
    /\ combo = t.combo
    /\ running = t.running
    /\ xfocus = t.xfocus
    /\ netactive = t.netactive
    /\ netclientlist = t.netclientlist
    /\ grab = t.grab
    /\ pointergrab = t.pointergrab

WIDTH(c) == c.w + 2 * c.bw
HEIGHT(c) == c.h + 2 * c.bw
CurTags(m) == m.tagset[m.seltags + 1]
ISVISIBLE(s, c) == BitAnd(s.clients[c].tags, CurTags(s.mons[s.clients[c].mon])) # 0

INTERSECT(x, y, w, h, m) ==
    MAX(0, MIN(x + w, m.mx + m.mw) - MAX(x, m.mx))
    * MAX(0, MIN(y + h, m.my + m.mh) - MAX(y, m.my))

-----------------------------------------------------------------------------
(* Client list and focus stack *)

attach(s, c) ==
    [s EXCEPT !.mons[s.clients[c].mon].clients = <<c>> \o @]

attachstack(s, c) ==
    [s EXCEPT !.mons[s.clients[c].mon].stack = <<c>> \o @]

\* The code unlinks the first node equal to c; a client is in the list of
\* its monitor once, so this is the list without c.
detach(s, c) ==
    [s EXCEPT !.mons[s.clients[c].mon].clients = Remove(@, c)]

RECURSIVE FirstVisible(_, _)
FirstVisible(s, stack) ==
    IF stack = <<>> THEN NULL
    ELSE IF ISVISIBLE(s, Head(stack)) THEN Head(stack)
    ELSE FirstVisible(s, Tail(stack))

detachstack(s, c) ==
    LET mi == s.clients[c].mon
    IN  Then([s EXCEPT !.mons[mi].stack = Remove(@, c)], LAMBDA s1 :
        IF c = s.mons[mi].sel
        THEN [s1 EXCEPT !.mons[mi].sel = FirstVisible(s1, s1.mons[mi].stack)]
        ELSE s1)

-----------------------------------------------------------------------------
(* Focus *)

grabbuttons(s, c, focused) ==
    [s EXCEPT !.grab[c] = IF focused = 1 THEN "focused" ELSE "unfocused"]

unfocus(s, c, setfocus) ==
    IF c = NULL THEN s
    ELSE Then(grabbuttons(s, c, 0), LAMBDA s1 :
         IF setfocus = 1
         THEN [s1 EXCEPT !.xfocus = Root, !.netactive = None]
         ELSE s1)

setfocus(s, c) ==
    IF ~s.clients[c].neverfocus
    THEN [s EXCEPT !.xfocus = c, !.netactive = c]
    ELSE s

seturgent(s, c, urg) == [s EXCEPT !.clients[c].isurgent = urg]

\* The body of if (c) in focus().
focusclient(s, c) ==
    Then([s EXCEPT !.selmon = s.clients[c].mon], LAMBDA a :
    Then(IF a.clients[c].isurgent THEN seturgent(a, c, FALSE) ELSE a, LAMBDA b :
    setfocus(grabbuttons(attachstack(detachstack(b, c), c), c, 1), c)))

\* Mutation of focus(): the search takes the head of the stack, in view or
\* not.
focus_stack_head(s, c0) ==
    Then(IF c0 = NULL \/ ~ISVISIBLE(s, c0)
         THEN IF s.mons[s.selmon].stack = <<>> THEN NULL ELSE Head(s.mons[s.selmon].stack)
         ELSE c0, LAMBDA c :
    Then(IF s.mons[s.selmon].sel # NULL /\ s.mons[s.selmon].sel # c
         THEN unfocus(s, s.mons[s.selmon].sel, 0)
         ELSE s, LAMBDA s1 :
    Then(IF c # NULL
         THEN focusclient(s1, c)
         ELSE [s1 EXCEPT !.xfocus = Root, !.netactive = None], LAMBDA s2 :
    [s2 EXCEPT !.mons[s2.selmon].sel = c])))

focus(s, c0) ==
    Then(IF c0 = NULL \/ ~ISVISIBLE(s, c0)
         THEN FirstVisible(s, s.mons[s.selmon].stack)
         ELSE c0, LAMBDA c :
    Then(IF s.mons[s.selmon].sel # NULL /\ s.mons[s.selmon].sel # c
         THEN unfocus(s, s.mons[s.selmon].sel, 0)
         ELSE s, LAMBDA s1 :
    Then(IF c # NULL
         THEN focusclient(s1, c)
         ELSE [s1 EXCEPT !.xfocus = Root, !.netactive = None], LAMBDA s2 :
    [s2 EXCEPT !.mons[s2.selmon].sel = c])))

-----------------------------------------------------------------------------
(* Size hints and resizing *)

\* w = h * a + 0.5 for an aspect ratio a held in thousandths; the float
\* arithmetic of the code is taken as exact, and the aspect comparisons are
\* those of the code for sizes that are positive once the base is removed.
AspectMul(v, a) == (v * a + 500) \div 1000

\* Mutation of the ICCCM part of applysizehints(): the base size taken off
\* before the increments is not added back.
hintedsize_drops_base(cl, w2, h2) ==
    LET baseismin == cl.basew = cl.minw /\ cl.baseh = cl.minh
        asp == cl.mina > 0 /\ cl.maxa > 0
    IN
    Then(IF ~baseismin THEN w2 - cl.basew ELSE w2, LAMBDA w3 :
    Then(IF ~baseismin THEN h2 - cl.baseh ELSE h2, LAMBDA h3 :
    Then(asp /\ h3 > 0 /\ cl.maxa * h3 < 1000 * w3, LAMBDA wide :
    Then(asp /\ ~wide /\ w3 > 0 /\ cl.mina * w3 < 1000 * h3, LAMBDA tall :
    Then(IF wide THEN AspectMul(h3, cl.maxa) ELSE w3, LAMBDA w4 :
    Then(IF tall THEN AspectMul(w3, cl.mina) ELSE h3, LAMBDA h4 :
    Then(IF baseismin THEN w4 - cl.basew ELSE w4, LAMBDA w5 :
    Then(IF baseismin THEN h4 - cl.baseh ELSE h4, LAMBDA h5 :
    Then(IF cl.incw # 0 THEN w5 - CRem(w5, cl.incw) ELSE w5, LAMBDA w6 :
    Then(IF cl.inch # 0 THEN h5 - CRem(h5, cl.inch) ELSE h5, LAMBDA h6 :
    Then(MAX(w6, cl.minw), LAMBDA w7 :
    Then(MAX(h6, cl.minh), LAMBDA h7 :
    <<IF cl.maxw # 0 THEN MIN(w7, cl.maxw) ELSE w7,
      IF cl.maxh # 0 THEN MIN(h7, cl.maxh) ELSE h7>>))))))))))))

\* The ICCCM 4.1.2.3 part of applysizehints(): w, h are the size after the
\* clamps to 1 and to bh.  Returns <<w, h>>.
hintedsize(cl, w2, h2) ==
    LET baseismin == cl.basew = cl.minw /\ cl.baseh = cl.minh
        asp == cl.mina > 0 /\ cl.maxa > 0
    IN
    Then(IF ~baseismin THEN w2 - cl.basew ELSE w2, LAMBDA w3 :
    Then(IF ~baseismin THEN h2 - cl.baseh ELSE h2, LAMBDA h3 :
    Then(asp /\ h3 > 0 /\ cl.maxa * h3 < 1000 * w3, LAMBDA wide :
    Then(asp /\ ~wide /\ w3 > 0 /\ cl.mina * w3 < 1000 * h3, LAMBDA tall :
    Then(IF wide THEN AspectMul(h3, cl.maxa) ELSE w3, LAMBDA w4 :
    Then(IF tall THEN AspectMul(w3, cl.mina) ELSE h3, LAMBDA h4 :
    Then(IF baseismin THEN w4 - cl.basew ELSE w4, LAMBDA w5 :
    Then(IF baseismin THEN h4 - cl.baseh ELSE h4, LAMBDA h5 :
    Then(IF cl.incw # 0 THEN w5 - CRem(w5, cl.incw) ELSE w5, LAMBDA w6 :
    Then(IF cl.inch # 0 THEN h5 - CRem(h5, cl.inch) ELSE h5, LAMBDA h6 :
    Then(MAX(AddWrap(w6, cl.basew), cl.minw), LAMBDA w7 :
    Then(MAX(AddWrap(h6, cl.baseh), cl.minh), LAMBDA h7 :
    <<IF cl.maxw # 0 THEN MIN(w7, cl.maxw) ELSE w7,
      IF cl.maxh # 0 THEN MIN(h7, cl.maxh) ELSE h7>>))))))))))))

\* Returns [ch, x, y, w, h]: the int result and the four out-parameters.
applysizehints(s, c, x0, y0, w0, h0, interact) ==
    LET cl == s.clients[c]
        m  == s.mons[s.clients[c].mon]
    IN
    Then(MAX(1, w0), LAMBDA w1 :
    Then(MAX(1, h0), LAMBDA h1 :
    Then(IF interact = 1
         THEN IF x0 > s.sw THEN s.sw - WIDTH(cl) ELSE x0
         ELSE IF x0 >= m.wx + m.ww THEN m.wx + m.ww - WIDTH(cl) ELSE x0, LAMBDA xa :
    Then(IF interact = 1
         THEN IF y0 > s.sh THEN s.sh - HEIGHT(cl) ELSE y0
         ELSE IF y0 >= m.wy + m.wh THEN m.wy + m.wh - HEIGHT(cl) ELSE y0, LAMBDA ya :
    Then(IF interact = 1
         THEN IF AddWrap(AddWrap(xa, w1), 2 * cl.bw) < 0 THEN 0 ELSE xa
         ELSE IF AddWrap(AddWrap(xa, w1), 2 * cl.bw) <= m.wx THEN m.wx ELSE xa, LAMBDA x :
    Then(IF interact = 1
         THEN IF AddWrap(AddWrap(ya, h1), 2 * cl.bw) < 0 THEN 0 ELSE ya
         ELSE IF AddWrap(AddWrap(ya, h1), 2 * cl.bw) <= m.wy THEN m.wy ELSE ya, LAMBDA y :
    Then(IF h1 < s.bh THEN s.bh ELSE h1, LAMBDA h2 :
    Then(IF w1 < s.bh THEN s.bh ELSE w1, LAMBDA w2 :
    Then(IF resizehints # 0 \/ cl.isfloating
         THEN hintedsize(cl, w2, h2) ELSE <<w2, h2>>, LAMBDA wh :
    [ch |-> x # cl.x \/ y # cl.y \/ wh[1] # cl.w \/ wh[2] # cl.h,
     x |-> x, y |-> y, w |-> wh[1], h |-> wh[2]])))))))))

resizeclient(s, c, x, y, w, h) ==
    LET cl == s.clients[c]
    IN  [s EXCEPT !.clients[c] =
            [cl EXCEPT !.oldx = cl.x, !.x = x, !.oldy = cl.y, !.y = y,
                       !.oldw = cl.w, !.w = w, !.oldh = cl.h, !.h = h]]

resize(s, c, x, y, w, h, interact) ==
    Then(applysizehints(s, c, x, y, w, h, interact), LAMBDA r :
    IF r.ch THEN resizeclient(s, c, r.x, r.y, r.w, r.h) ELSE s)

-----------------------------------------------------------------------------
(* Layout *)

\* Visible clients are shown top down, and a floating one that is not
\* fullscreen is resized through its size hints; hidden clients are only
\* moved off screen on the X side, which leaves the Client record alone.
RECURSIVE showhide(_, _)
showhide(s, stack) ==
    IF stack = <<>> THEN s
    ELSE LET c  == Head(stack)
             cl == s.clients[Head(stack)]
         IN  IF ISVISIBLE(s, c)
             THEN showhide(IF cl.isfloating /\ ~cl.isfullscreen
                           THEN resize(s, c, cl.x, cl.y, cl.w, cl.h, 0)
                           ELSE s,
                           Tail(stack))
             ELSE showhide(s, Tail(stack))

\* The tiled clients of a client list, in order: nexttiled() applied
\* repeatedly from the head.
RECURSIVE nexttiled(_, _)
nexttiled(s, list) ==
    IF list = <<>> THEN <<>>
    ELSE IF s.clients[Head(list)].isfloating \/ ~ISVISIBLE(s, Head(list))
    THEN nexttiled(s, Tail(list))
    ELSE <<Head(list)>> \o nexttiled(s, Tail(list))

\* Mutation of the column offset of tile(): the offset stays where it is.
advance_stays(my, hc, m) == my

\* my += HEIGHT(c) + gappx when my + HEIGHT(c) < wh, in unsigned arithmetic.
advance(my, hc, m) ==
    IF ULess(AddWrap(my, hc), m.wh) THEN AddWrap(my, AddWrap(hc, m.gappx)) ELSE my

\* One pass of the loop of tile(): list is the tiled clients from index i on.
\* i, n, h, mw, my, ty are unsigned ints in the code.
RECURSIVE tileloop(_, _, _, _, _, _, _, _)
tileloop(s, mi, list, i, n, mw, my, ty) ==
    IF list = <<>> THEN s
    ELSE
    LET m  == s.mons[mi]
        c  == Head(list)
        bw == s.clients[Head(list)].bw
    IN  IF i < m.nmaster
        THEN Then(SubWrap(UDiv(SubWrap(m.wh, my), MIN(n, m.nmaster) - i), m.gappx), LAMBDA h :
             Then(resize(s, c, m.wx + m.gappx, AddWrap(m.wy, my),
                         SubWrap(SubWrap(mw, 2 * bw), m.gappx),
                         SubWrap(h, 2 * bw), 0), LAMBDA s1 :
             tileloop(s1, mi, Tail(list), i + 1, n, mw,
                      advance(my, HEIGHT(s1.clients[c]), m), ty)))
        ELSE Then(SubWrap(UDiv(SubWrap(m.wh, ty), n - i), m.gappx), LAMBDA h :
             Then(resize(s, c, AddWrap(AddWrap(m.wx, mw), m.gappx), AddWrap(m.wy, ty),
                         SubWrap(SubWrap(SubWrap(m.ww, mw), 2 * bw), 2 * m.gappx),
                         SubWrap(h, 2 * bw), 0), LAMBDA s1 :
             tileloop(s1, mi, Tail(list), i + 1, n, mw, my,
                      advance(ty, HEIGHT(s1.clients[c]), m))))

\* Mutation of the master area width of tile(): half the window area.
masterwidth_half(m, n) == m.ww \div 2

\* The master area width mw of tile(): m->ww * m->mfact converted to
\* unsigned, with mfact held in hundredths.
masterwidth(m, n) ==
    IF n > m.nmaster
    THEN IF m.nmaster # 0 THEN (m.ww * m.mfact) \div 100 ELSE 0
    ELSE m.ww - m.gappx

tile(s, mi) ==
    Then(nexttiled(s, s.mons[mi].clients), LAMBDA list :
    IF Len(list) = 0 THEN s
    ELSE tileloop(s, mi, list, 0, Len(list), masterwidth(s.mons[mi], Len(list)),
                  s.mons[mi].gappx, s.mons[mi].gappx))

\* restack() raises the selected floating window and drains EnterNotify
\* events; neither is part of the state modelled here.
restack(s, mi) == s

\* The two loops of arrange(NULL) over the monitors: showhide, then tile.
RECURSIVE arrangeall(_, _, _)
arrangeall(s, mi, step) ==
    IF mi > Len(s.mons) THEN s
    ELSE arrangeall(IF step = 1 THEN showhide(s, s.mons[mi].stack) ELSE tile(s, mi),
                    mi + 1, step)

\* arrange(m); mi = NULL arranges every monitor.
arrange(s, mi) ==
    IF mi # NULL
    THEN Then(showhide(s, s.mons[mi].stack), LAMBDA s1 : restack(tile(s1, mi), mi))
    ELSE Then(arrangeall(s, 1, 1), LAMBDA s1 : arrangeall(s1, 1, 2))

updatebarpos(s, mi) ==
    LET m == s.mons[mi]
    IN  [s EXCEPT !.mons[mi] =
            [m EXCEPT !.wh = m.mh - m.bh, !.by = m.my, !.wy = m.my + m.bh]]

-----------------------------------------------------------------------------
(* Monitors *)

\* ecalloc zeroes the record; seltags 0 selects tagset[0], held at index 1.
createmon(s) ==
    [num |-> 0, by |-> 0, bh |-> s.bh,
     mx |-> 0, my |-> 0, mw |-> 0, mh |-> 0,
     wx |-> 0, wy |-> 0, ww |-> 0, wh |-> 0,
     gappx |-> gappx, mfact |-> mfact, nmaster |-> nmaster,
     seltags |-> 0, tagset |-> <<1, 1>>,
     clients |-> <<>>, sel |-> NULL, stack |-> <<>>,
     barwin |-> 0, traywin |-> 0]

\* The loop of recttomon() from monitor mi on: r is the best monitor so
\* far and area its intersection.
RECURSIVE recttomonfrom(_, _, _, _, _, _, _, _)
recttomonfrom(s, x, y, w, h, mi, r, area) ==
    IF mi > Len(s.mons) THEN r
    ELSE IF INTERSECT(x, y, w, h, s.mons[mi]) > area
    THEN recttomonfrom(s, x, y, w, h, mi + 1, mi, INTERSECT(x, y, w, h, s.mons[mi]))
    ELSE recttomonfrom(s, x, y, w, h, mi + 1, r, area)

recttomon(s, x, y, w, h) == recttomonfrom(s, x, y, w, h, 1, s.selmon, 0)

wintoclient(s, w) ==
    IF \E mi \in 1..Len(s.mons) : Mem(s.mons[mi].clients, w) THEN w ELSE NULL

\* ptr is the pointer position <<x, y>> that getrootptr() reports, or <<>>
\* when XQueryPointer fails.
wintomon(s, w, ptr) ==
    IF w = Root /\ ptr # <<>> THEN recttomon(s, ptr[1], ptr[2], 1, 1)
    ELSE IF \E mi \in 1..Len(s.mons) : w = s.mons[mi].barwin \/ w = s.mons[mi].traywin
    THEN CHOOSE mi \in 1..Len(s.mons) :
            /\ w = s.mons[mi].barwin \/ w = s.mons[mi].traywin
            /\ \A mj \in 1..(mi - 1) : ~(w = s.mons[mj].barwin \/ w = s.mons[mj].traywin)
    ELSE IF wintoclient(s, w) # NULL THEN s.clients[w].mon
    ELSE s.selmon

\* isuniquegeom(): no screen of unique has the geometry of screen info.
isuniquegeom(unique, info) ==
    \A j \in 1..Len(unique) :
        ~(unique[j].x = info.x /\ unique[j].y = info.y
          /\ unique[j].w = info.w /\ unique[j].h = info.h)

\* The unique screens of a Xinerama screen list, first occurrence kept.
RECURSIVE uniquegeoms(_, _)
uniquegeoms(info, unique) ==
    IF info = <<>> THEN unique
    ELSE uniquegeoms(Tail(info),
                     IF isuniquegeom(unique, Head(info))
                     THEN Append(unique, Head(info)) ELSE unique)

\* The loop of updategeom() that appends nn - n fresh monitors.
RECURSIVE addmons(_, _)
addmons(s, k) ==
    IF k <= 0 THEN s
    ELSE addmons([s EXCEPT !.mons = Append(@, createmon(s))], k - 1)

\* The loop of updategeom() over the first nn monitors (n: the old count),
\* on r = [s, dirty].
RECURSIVE setgeoms(_, _, _, _)
setgeoms(r, unique, n, i) ==
    IF i > Len(unique) \/ i > Len(r.s.mons) THEN r
    ELSE LET m == r.s.mons[i]
             u == unique[i]
         IN  IF i > n \/ u.x # m.mx \/ u.y # m.my \/ u.w # m.mw \/ u.h # m.mh
             THEN setgeoms([s |-> updatebarpos(
                                    [r.s EXCEPT !.mons[i] =
                                        [m EXCEPT !.num = i - 1,
                                                  !.mx = u.x, !.wx = u.x,
                                                  !.my = u.y, !.wy = u.y,
                                                  !.mw = u.w, !.ww = u.w,
                                                  !.mh = u.h, !.wh = u.h]], i),
                            dirty |-> TRUE], unique, n, i + 1)
             ELSE setgeoms(r, unique, n, i + 1)

\* The while loop of updategeom() that empties the last monitor into mons.
RECURSIVE moveclients(_)
moveclients(s) ==
    IF s.mons[Len(s.mons)].clients = <<>> THEN s
    ELSE LET c == Head(s.mons[Len(s.mons)].clients)
         IN  Then(detachstack([s EXCEPT !.mons[Len(s.mons)].clients = Tail(@)], c),
                  LAMBDA s1 :
             Then([s1 EXCEPT !.clients[c].mon = 1], LAMBDA s2 :
             moveclients(attachstack(attach(s2, c), c))))

\* cleanupmon() on the last monitor of the list.
cleanupmon(s) == [s EXCEPT !.mons = SubSeq(@, 1, Len(@) - 1)]

\* Mutation of dropmons(): the selection stays on the monitor removed.
RECURSIVE dropmons_keeps_selmon(_, _)
dropmons_keeps_selmon(r, k) ==
    IF k <= 0 THEN r
    ELSE Then(moveclients(r.s), LAMBDA s1 :
         dropmons_keeps_selmon(
                  [s |-> cleanupmon(s1),
                   dirty |-> r.dirty \/ r.s.mons[Len(r.s.mons)].clients # <<>>],
                  k - 1))

\* The loop of updategeom() that removes the k last monitors, on r = [s, dirty].
RECURSIVE dropmons(_, _)
dropmons(r, k) ==
    IF k <= 0 THEN r
    ELSE Then(moveclients(r.s), LAMBDA s1 :
         dropmons([s |-> cleanupmon(IF Len(r.s.mons) = s1.selmon
                                    THEN [s1 EXCEPT !.selmon = 1] ELSE s1),
                   dirty |-> r.dirty \/ r.s.mons[Len(r.s.mons)].clients # <<>>],
                  k - 1))

\* updategeom() with Xinerama active: info is the reported screen list.
\* Returns [s, dirty].
updategeom(s, info, ptr) ==
    Then(uniquegeoms(info, <<>>), LAMBDA unique :
    Then(IF Len(s.mons) <= Len(unique)
         THEN setgeoms([s |-> addmons(s, Len(unique) - Len(s.mons)), dirty |-> FALSE],
                       unique, Len(s.mons), 1)
         ELSE dropmons([s |-> s, dirty |-> FALSE], Len(s.mons) - Len(unique)),
         LAMBDA r :
    IF r.dirty
    THEN Then([r.s EXCEPT !.selmon = 1], LAMBDA s1 :
         [s |-> [s1 EXCEPT !.selmon = wintomon(s1, Root, ptr)], dirty |-> TRUE])
    ELSE r))

-----------------------------------------------------------------------------
(* Clients *)

\* Mutation of setfullscreen(): leaving fullscreen does not restore
\* isfloating from oldstate.
setfullscreen_stays_floating(s, c, fullscreen) ==
    LET cl == s.clients[c]
        m  == s.mons[s.clients[c].mon]
    IN  IF fullscreen /\ ~cl.isfullscreen
        THEN resizeclient([s EXCEPT !.clients[c] =
                              [cl EXCEPT !.isfullscreen = TRUE,
                                         !.oldstate = cl.isfloating,
                                         !.oldbw = cl.bw,
                                         !.bw = 0,
                                         !.isfloating = TRUE]],
                          c, m.mx, m.my, m.mw, m.mh)
        ELSE IF ~fullscreen /\ cl.isfullscreen
        THEN arrange(resizeclient([s EXCEPT !.clients[c] =
                                      [cl EXCEPT !.isfullscreen = FALSE,
                                                 !.bw = cl.oldbw,
                                                 !.x = cl.oldx, !.y = cl.oldy,
                                                 !.w = cl.oldw, !.h = cl.oldh]],
                                  c, cl.oldx, cl.oldy, cl.oldw, cl.oldh),
                     cl.mon)
        ELSE s

setfullscreen(s, c, fullscreen) ==
    LET cl == s.clients[c]
        m  == s.mons[s.clients[c].mon]
    IN  IF fullscreen /\ ~cl.isfullscreen
        THEN resizeclient([s EXCEPT !.clients[c] =
                              [cl EXCEPT !.isfullscreen = TRUE,
                                         !.oldstate = cl.isfloating,
                                         !.oldbw = cl.bw,
                                         !.bw = 0,
                                         !.isfloating = TRUE]],
                          c, m.mx, m.my, m.mw, m.mh)
        ELSE IF ~fullscreen /\ cl.isfullscreen
        THEN arrange(resizeclient([s EXCEPT !.clients[c] =
                                      [cl EXCEPT !.isfullscreen = FALSE,
                                                 !.isfloating = cl.oldstate,
                                                 !.bw = cl.oldbw,
                                                 !.x = cl.oldx, !.y = cl.oldy,
                                                 !.w = cl.oldw, !.h = cl.oldh]],
                                  c, cl.oldx, cl.oldy, cl.oldw, cl.oldh),
                     cl.mon)
        ELSE s

\* WM_NORMAL_HINTS as XGetWMNormalHints returns them: flags is the set of
\* flags present; a failed read is flags = {} (the code sets PSize).
NoSizeHints ==
    [flags |-> {}, basew |-> 0, baseh |-> 0, incw |-> 0, inch |-> 0,
     maxw |-> 0, maxh |-> 0, minw |-> 0, minh |-> 0, mina |-> 0, maxa |-> 0]

updatesizehints(s, c, size) ==
    LET has(f) == f \in size.flags
        basew == IF has("PBaseSize") THEN size.basew
                 ELSE IF has("PMinSize") THEN size.minw ELSE 0
        baseh == IF has("PBaseSize") THEN size.baseh
                 ELSE IF has("PMinSize") THEN size.minh ELSE 0
        incw  == IF has("PResizeInc") THEN size.incw ELSE 0
        inch  == IF has("PResizeInc") THEN size.inch ELSE 0
        maxw  == IF has("PMaxSize") THEN size.maxw ELSE 0
        maxh  == IF has("PMaxSize") THEN size.maxh ELSE 0
        minw  == IF has("PMinSize") THEN size.minw
                 ELSE IF has("PBaseSize") THEN size.basew ELSE 0
        minh  == IF has("PMinSize") THEN size.minh
                 ELSE IF has("PBaseSize") THEN size.baseh ELSE 0
        mina  == IF has("PAspect") THEN size.mina ELSE 0
        maxa  == IF has("PAspect") THEN size.maxa ELSE 0
    IN  [s EXCEPT !.clients[c] =
            [s.clients[c] EXCEPT !.basew = basew, !.baseh = baseh, !.incw = incw, !.inch = inch,
                      !.maxw = maxw, !.maxh = maxh, !.minw = minw, !.minh = minh,
                      !.mina = mina, !.maxa = maxa,
                      !.isfixed = (maxw # 0 /\ maxh # 0 /\ maxw = minw /\ maxh = minh)]]

\* WM_HINTS as XGetWMHints returns them; present = FALSE is a NULL result.
NoWMHints == [present |-> FALSE, urgent |-> FALSE, hasinput |-> FALSE, input |-> FALSE]

updatewmhints(s, c, wmh) ==
    IF ~wmh.present THEN s
    ELSE Then(IF c = s.mons[s.selmon].sel /\ wmh.urgent
              THEN s
              ELSE [s EXCEPT !.clients[c].isurgent = wmh.urgent], LAMBDA s1 :
         [s1 EXCEPT !.clients[c].neverfocus =
                        IF wmh.hasinput THEN ~wmh.input ELSE FALSE])

\* state, wtype: whether _NET_WM_STATE is the fullscreen atom and
\* _NET_WM_WINDOW_TYPE the dialog atom.
updatewindowtype(s, c, state, wtype) ==
    Then(IF state THEN setfullscreen(s, c, TRUE) ELSE s, LAMBDA s1 :
    IF wtype THEN [s1 EXCEPT !.clients[c].isfloating = TRUE] ELSE s1)

\* rules[] of the config; the tag of the Firefox rule (1 << 8, the last of
\* the nine tags) is the last tag of the model.
rules ==
    << [class |-> "Gimp", tags |-> 0, isfloating |-> TRUE, monitor |-> -1],
       [class |-> "Firefox", tags |-> 2^(NumTags - 1), isfloating |-> FALSE, monitor |-> -1] >>

\* The monitor a rule names: the first with that num, or mi when none has it.
rulemon(s, monitor, mi) ==
    IF \E mj \in 1..Len(s.mons) : s.mons[mj].num = monitor
    THEN CHOOSE mj \in 1..Len(s.mons) :
            /\ s.mons[mj].num = monitor
            /\ \A mk \in 1..(mj - 1) : s.mons[mk].num # monitor
    ELSE mi

\* The loop of applyrules() over rules[i..].
RECURSIVE applyrulesfrom(_, _, _, _)
applyrulesfrom(s, c, class, i) ==
    IF i > Len(rules) THEN s
    ELSE IF rules[i].class = class
    THEN applyrulesfrom([s EXCEPT !.clients[c].isfloating = rules[i].isfloating,
                                  !.clients[c].tags = BitOr(@, rules[i].tags),
                                  !.clients[c].mon = rulemon(s, rules[i].monitor, @)],
                        c, class, i + 1)
    ELSE applyrulesfrom(s, c, class, i + 1)

\* Mutation of applyrules(): a client no rule gives a tag gets every tag.
applyrules_every_tag(s, c, class) ==
    Then(applyrulesfrom([s EXCEPT !.clients[c].isfloating = FALSE, !.clients[c].tags = 0],
                        c, class, 1), LAMBDA s1 :
    [s1 EXCEPT !.clients[c].tags =
        IF BitAnd(@, TAGMASK) # 0 THEN BitAnd(@, TAGMASK) ELSE TAGMASK])

applyrules(s, c, class) ==
    Then(applyrulesfrom([s EXCEPT !.clients[c].isfloating = FALSE, !.clients[c].tags = 0],
                        c, class, 1), LAMBDA s1 :
    [s1 EXCEPT !.clients[c].tags =
        IF BitAnd(@, TAGMASK) # 0 THEN BitAnd(@, TAGMASK)
        ELSE CurTags(s1.mons[s1.clients[c].mon])])

\* The Client record after ecalloc and the copy of the window attributes.
newclient(wa) ==
    [mina |-> 0, maxa |-> 0,
     x |-> wa.x, y |-> wa.y, w |-> wa.w, h |-> wa.h,
     oldx |-> wa.x, oldy |-> wa.y, oldw |-> wa.w, oldh |-> wa.h,
     basew |-> 0, baseh |-> 0, incw |-> 0, inch |-> 0,
     maxw |-> 0, maxh |-> 0, minw |-> 0, minh |-> 0,
     bw |-> 0, oldbw |-> wa.bw, tags |-> 0,
     isfixed |-> FALSE, isfloating |-> FALSE, isurgent |-> FALSE,
     neverfocus |-> FALSE, oldstate |-> FALSE, isfullscreen |-> FALSE,
     mon |-> NULL]

\* The placement of manage(): keep the window on its monitor and, when
\* its centre is over the window area, below the global bar height.
placeclient(s, c) ==
    LET cl == s.clients[c]
        m  == s.mons[s.clients[c].mon]
    IN
    Then(IF cl.x + WIDTH(cl) > m.mx + m.mw THEN m.mx + m.mw - WIDTH(cl) ELSE cl.x, LAMBDA x1 :
    Then(IF cl.y + HEIGHT(cl) > m.my + m.mh THEN m.my + m.mh - HEIGHT(cl) ELSE cl.y, LAMBDA y1 :
    Then(MAX(x1, m.mx), LAMBDA x2 :
    [s EXCEPT !.clients[c].x = x2,
              !.clients[c].y = MAX(y1, IF /\ m.by = m.my
                                          /\ x2 + CDiv(cl.w, 2) >= m.wx
                                          /\ x2 + CDiv(cl.w, 2) < m.wx + m.ww
                                       THEN s.bh ELSE m.my),
              !.clients[c].bw = borderpx])))

\* The end of manage() from attach(c) on.
manageattach(s, c) ==
    Then([attachstack(attach(s, c), c) EXCEPT !.netclientlist = Append(@, c)], LAMBDA s1 :
    Then(IF s1.clients[c].mon = s1.selmon
         THEN unfocus(s1, s1.mons[s1.selmon].sel, 0) ELSE s1, LAMBDA s2 :
    focus(arrange([s2 EXCEPT !.mons[s2.clients[c].mon].sel = c], s2.clients[c].mon), NULL)))

\* Mutation of manage(): a transient window is put on the selected monitor
\* under the rules, like any other window.
manage_by_rules(s, c, a) ==
    Then([s EXCEPT !.clients = (c :> newclient(a)) @@ @,
                   !.grab = (c :> "unfocused") @@ @], LAMBDA s0 :
    Then(applyrules([s0 EXCEPT !.clients[c].mon = s.selmon], c, a.class), LAMBDA s1 :
    Then(updatewindowtype(placeclient(s1, c), c, a.fullscreen, a.dialog), LAMBDA s2 :
    Then(grabbuttons(updatewmhints(updatesizehints(s2, c, a.size), c, a.wmh), c, 0),
         LAMBDA s3 :
    manageattach(IF ~s3.clients[c].isfloating
                 THEN [s3 EXCEPT
                          !.clients[c].isfloating = (a.trans # None \/ s3.clients[c].isfixed),
                          !.clients[c].oldstate = (a.trans # None \/ s3.clients[c].isfixed)]
                 ELSE s3, c)))))

\* manage(w, wa); a holds what the X server answers about the window:
\* its attributes, WM_TRANSIENT_FOR (trans), WM_CLASS, _NET_WM_STATE,
\* _NET_WM_WINDOW_TYPE, WM_NORMAL_HINTS and WM_HINTS.
manage(s, c, a) ==
    Then([s EXCEPT !.clients = (c :> newclient(a)) @@ @,
                   !.grab = (c :> "unfocused") @@ @], LAMBDA s0 :
    Then(IF a.trans # None /\ wintoclient(s, a.trans) # NULL
         THEN [s0 EXCEPT !.clients[c].mon = s.clients[a.trans].mon,
                         !.clients[c].tags = s.clients[a.trans].tags]
         ELSE applyrules([s0 EXCEPT !.clients[c].mon = s.selmon], c, a.class), LAMBDA s1 :
    Then(updatewindowtype(placeclient(s1, c), c, a.fullscreen, a.dialog), LAMBDA s2 :
    Then(grabbuttons(updatewmhints(updatesizehints(s2, c, a.size), c, a.wmh), c, 0),
         LAMBDA s3 :
    manageattach(IF ~s3.clients[c].isfloating
                 THEN [s3 EXCEPT
                          !.clients[c].isfloating = (a.trans # None \/ s3.clients[c].isfixed),
                          !.clients[c].oldstate = (a.trans # None \/ s3.clients[c].isfixed)]
                 ELSE s3, c)))))

managealtbar(s, win, a) ==
    Then(recttomon(s, a.x, a.y, a.w, a.h), LAMBDA mi :
    Then(arrange(updatebarpos([s EXCEPT !.mons[mi].barwin = win, !.mons[mi].by = a.y,
                                        !.mons[mi].bh = a.h, !.bh = a.h], mi), mi),
         LAMBDA s1 :
    [s1 EXCEPT !.netclientlist = Append(@, win)]))

\* Mutation of updateclientlist(): the property is left as it was.
updateclientlist_stale(s) == s

updateclientlist(s) ==
    [s EXCEPT !.netclientlist =
        Flatten([mi \in 1..Len(s.mons) |-> s.mons[mi].clients])]

\* unmanage(c, destroyed): the X requests of the !destroyed branch change
\* nothing that is modelled; free(c) removes the record.
unmanage(s, c, destroyed) ==
    Then(detachstack(detach(s, c), c), LAMBDA s1 :
    arrange(updateclientlist(focus(
                [s1 EXCEPT !.clients = [w \in DOMAIN @ \ {c} |-> @[w]],
                           !.grab = [w \in DOMAIN @ \ {c} |-> @[w]]], NULL)),
            s.clients[c].mon))

\* Mutation of unmanagealtbar(): the window area is not computed anew.
unmanagealtbar_keeps_area(s, w) ==
    Then(wintomon(s, w, <<>>), LAMBDA mi :
    arrange([s EXCEPT !.mons[mi].barwin = 0, !.mons[mi].by = 0, !.mons[mi].bh = 0], mi))

unmanagealtbar(s, w) ==
    Then(wintomon(s, w, <<>>), LAMBDA mi :
    arrange(updatebarpos([s EXCEPT !.mons[mi].barwin = 0, !.mons[mi].by = 0,
                                   !.mons[mi].bh = 0], mi), mi))

\* Mutation of sendmon(): the client is not unlinked from the client list
\* of the monitor it leaves.
sendmon_keeps_link(s, c, mi) ==
    IF s.clients[c].mon = mi THEN s
    ELSE Then(detachstack(unfocus(s, c, 1), c), LAMBDA s1 :
         Then([s1 EXCEPT !.clients[c].mon = mi,
                         !.clients[c].tags = CurTags(s1.mons[mi])], LAMBDA s2 :
         arrange(focus(attachstack(attach(s2, c), c), NULL), NULL)))

sendmon(s, c, mi) ==
    IF s.clients[c].mon = mi THEN s
    ELSE Then(detachstack(detach(unfocus(s, c, 1), c), c), LAMBDA s1 :
         Then([s1 EXCEPT !.clients[c].mon = mi,
                         !.clients[c].tags = CurTags(s1.mons[mi])], LAMBDA s2 :
         arrange(focus(attachstack(attach(s2, c), c), NULL), NULL)))

-----------------------------------------------------------------------------
(* Commands bound to keys and buttons *)

keyrelease(s) == [s EXCEPT !.combo = FALSE]

combotag(s, ui) ==
    LET sel == s.mons[s.selmon].sel
    IN  IF sel # NULL /\ BitAnd(ui, TAGMASK) # 0
        THEN Then(focus(IF s.combo
                        THEN [s EXCEPT !.clients[sel].tags = BitOr(@, BitAnd(ui, TAGMASK))]
                        ELSE [s EXCEPT !.combo = TRUE,
                                       !.clients[sel].tags = BitAnd(ui, TAGMASK)], NULL),
                  LAMBDA s1 : arrange(s1, s1.selmon))
        ELSE s

\* Mutation of comboview(): every call starts a chord of its own.
comboview_restarts(s, ui) ==
    LET newtags == BitAnd(ui, TAGMASK)
        mi == s.selmon
    IN  Then(focus(IF newtags # 0
                   THEN [s EXCEPT !.mons[mi].seltags = 1 - @, !.combo = TRUE,
                                  !.mons[mi].tagset[(1 - s.mons[mi].seltags) + 1] = newtags]
                   ELSE [s EXCEPT !.mons[mi].seltags = 1 - @, !.combo = TRUE], NULL),
             LAMBDA s1 : arrange(s1, s1.selmon))

comboview(s, ui) ==
    LET newtags == BitAnd(ui, TAGMASK)
        mi == s.selmon
    IN  Then(focus(IF s.combo
                   THEN [s EXCEPT !.mons[mi].tagset[s.mons[mi].seltags + 1] =
                                     BitOr(@, newtags)]
                   ELSE IF newtags # 0
                   THEN [s EXCEPT !.mons[mi].seltags = 1 - @, !.combo = TRUE,
                                  !.mons[mi].tagset[(1 - s.mons[mi].seltags) + 1] = newtags]
                   ELSE [s EXCEPT !.mons[mi].seltags = 1 - @, !.combo = TRUE], NULL),
             LAMBDA s1 : arrange(s1, s1.selmon))

\* Mutation of view(): the new mask is stored without toggling seltags.
view_same_buffer(s, ui) ==
    LET mi == s.selmon
    IN  IF BitAnd(ui, TAGMASK) = CurTags(s.mons[mi]) THEN s
        ELSE Then(focus(IF BitAnd(ui, TAGMASK) # 0
                        THEN [s EXCEPT !.mons[mi].tagset[s.mons[mi].seltags + 1] =
                                          BitAnd(ui, TAGMASK)]
                        ELSE s, NULL),
                  LAMBDA s1 : arrange(s1, s1.selmon))

view(s, ui) ==
    LET mi == s.selmon
    IN  IF BitAnd(ui, TAGMASK) = CurTags(s.mons[mi]) THEN s
        ELSE Then(focus(IF BitAnd(ui, TAGMASK) # 0
                        THEN [s EXCEPT !.mons[mi].seltags = 1 - @,
                                       !.mons[mi].tagset[(1 - s.mons[mi].seltags) + 1] =
                                          BitAnd(ui, TAGMASK)]
                        ELSE [s EXCEPT !.mons[mi].seltags = 1 - @], NULL),
                  LAMBDA s1 : arrange(s1, s1.selmon))

tag(s, ui) ==
    LET sel == s.mons[s.selmon].sel
    IN  IF sel # NULL /\ BitAnd(ui, TAGMASK) # 0
        THEN Then(focus([s EXCEPT !.clients[sel].tags = BitAnd(ui, TAGMASK)], NULL),
                  LAMBDA s1 : arrange(s1, s1.selmon))
        ELSE s

\* Mutation of toggletag(): the mask is ORed into the tags.
toggletag_or(s, ui) ==
    LET sel == s.mons[s.selmon].sel
    IN  IF sel = NULL THEN s
        ELSE Then(BitOr(s.clients[sel].tags, BitAnd(ui, TAGMASK)), LAMBDA newtags :
             IF newtags # 0
             THEN Then(focus([s EXCEPT !.clients[sel].tags = newtags], NULL),
                       LAMBDA s1 : arrange(s1, s1.selmon))
             ELSE s)

toggletag(s, ui) ==
    LET sel == s.mons[s.selmon].sel
    IN  IF sel = NULL THEN s
        ELSE Then(BitXor(s.clients[sel].tags, BitAnd(ui, TAGMASK)), LAMBDA newtags :
             IF newtags # 0
             THEN Then(focus([s EXCEPT !.clients[sel].tags = newtags], NULL),
                       LAMBDA s1 : arrange(s1, s1.selmon))
             ELSE s)

\* Mutation of toggleview(): the new tagset is stored without the test
\* that it is not empty.
toggleview_unguarded(s, ui) ==
    Then(focus([s EXCEPT !.mons[s.selmon].tagset[s.mons[s.selmon].seltags + 1] =
                            BitXor(@, BitAnd(ui, TAGMASK))], NULL),
         LAMBDA s1 : arrange(s1, s1.selmon))

\* Mutation of toggleview(): the new tagset is stored even when it is empty.
toggleview_to_none(s, ui) ==
    LET mi == s.selmon
    IN  Then(BitXor(CurTags(s.mons[mi]), BitAnd(ui, TAGMASK)), LAMBDA newtagset :
        Then(focus([s EXCEPT !.mons[mi].tagset[s.mons[mi].seltags + 1] = newtagset], NULL),
             LAMBDA s1 : arrange(s1, s1.selmon)))

toggleview(s, ui) ==
    LET mi == s.selmon
    IN  Then(BitXor(CurTags(s.mons[mi]), BitAnd(ui, TAGMASK)), LAMBDA newtagset :
        IF newtagset # 0
        THEN Then(focus([s EXCEPT !.mons[mi].tagset[s.mons[mi].seltags + 1] = newtagset],
                        NULL),
                  LAMBDA s1 : arrange(s1, s1.selmon))
        ELSE s)

dirtomon(s, dir) ==
    IF dir > 0
    THEN IF s.selmon < Len(s.mons) THEN s.selmon + 1 ELSE 1
    ELSE IF s.selmon = 1 THEN Len(s.mons) ELSE s.selmon - 1

focusmon(s, dir) ==
    IF Len(s.mons) = 1 THEN s
    ELSE IF dirtomon(s, dir) = s.selmon THEN s
    ELSE focus([unfocus(s, s.mons[s.selmon].sel, 0) EXCEPT !.selmon = dirtomon(s, dir)],
               NULL)

tagmon(s, dir) ==
    IF s.mons[s.selmon].sel = NULL \/ Len(s.mons) = 1 THEN s
    ELSE sendmon(s, s.mons[s.selmon].sel, dirtomon(s, dir))

\* The last element of a client list that is visible, or found when none is.
RECURSIVE LastVisible(_, _, _)
LastVisible(s, list, found) ==
    IF list = <<>> THEN found
    ELSE LastVisible(s, Tail(list), IF ISVISIBLE(s, Head(list)) THEN Head(list) ELSE found)

IndexOf(seq, e) == CHOOSE i \in 1..Len(seq) : seq[i] = e /\ \A j \in 1..(i - 1) : seq[j] # e

\* The client focusstack() picks: the next visible one after sel, wrapping
\* to the head of the list; or the last visible one before sel, wrapping
\* to the last visible one of the list.
stacktarget(s, m, dir) ==
    LET k == IndexOf(m.clients, m.sel)
    IN  IF dir > 0
        THEN Then(FirstVisible(s, SubSeq(m.clients, k + 1, Len(m.clients))), LAMBDA c :
             IF c # NULL THEN c ELSE FirstVisible(s, m.clients))
        ELSE Then(LastVisible(s, SubSeq(m.clients, 1, k - 1), NULL), LAMBDA c :
             IF c # NULL THEN c
             ELSE LastVisible(s, SubSeq(m.clients, k, Len(m.clients)), NULL))

\* selmon->sel is a member of selmon->clients whenever it is not NULL.
focusstack(s, dir) ==
    LET m == s.mons[s.selmon]
    IN  IF m.sel = NULL \/ ~Mem(m.clients, m.sel) THEN s
        ELSE Then(stacktarget(s, m, dir), LAMBDA c :
             IF c # NULL THEN restack(focus(s, c), s.selmon) ELSE s)

\* Mutation of pop(): the client is focused where it is in the list.
pop_keeps_place(s, c) ==
    Then(focus(s, c), LAMBDA s1 : arrange(s1, s1.clients[c].mon))

pop(s, c) ==
    Then(focus(attach(detach(s, c), c), c), LAMBDA s1 :
    arrange(s1, s1.clients[c].mon))

\* zoom() with no selection and a tiled client on the selected monitor
\* calls pop(NULL); the model leaves the state alone there.
zoom(s) ==
    LET sel == s.mons[s.selmon].sel
    IN  IF sel = NULL THEN s
        ELSE IF s.clients[sel].isfloating THEN s
        ELSE Then(nexttiled(s, s.mons[s.selmon].clients), LAMBDA tiled :
             IF tiled # <<>> /\ sel = Head(tiled)
             THEN IF Len(tiled) < 2 THEN s ELSE pop(s, tiled[2])
             ELSE pop(s, sel))

incnmaster(s, i) ==
    arrange([s EXCEPT !.mons[s.selmon].nmaster = MAX(@ + i, 0)], s.selmon)

\* Mutation of togglefloating(): a fullscreen selection is toggled as well.
togglefloating_fullscreen(s) ==
    LET sel == s.mons[s.selmon].sel
    IN  IF sel = NULL THEN s
        ELSE Then([s EXCEPT !.clients[sel].isfloating = (~@ \/ s.clients[sel].isfixed)],
                  LAMBDA s1 :
             Then(IF s1.clients[sel].isfloating
                  THEN resize(s1, sel, s1.clients[sel].x, s1.clients[sel].y,
                              s1.clients[sel].w, s1.clients[sel].h, 0)
                  ELSE s1, LAMBDA s2 :
             arrange(s2, s2.selmon)))

togglefloating(s) ==
    LET sel == s.mons[s.selmon].sel
    IN  IF sel = NULL THEN s
        ELSE IF s.clients[sel].isfullscreen THEN s
        ELSE Then([s EXCEPT !.clients[sel].isfloating = (~@ \/ s.clients[sel].isfixed)],
                  LAMBDA s1 :
             Then(IF s1.clients[sel].isfloating
                  THEN resize(s1, sel, s1.clients[sel].x, s1.clients[sel].y,
                              s1.clients[sel].w, s1.clients[sel].h, 0)
                  ELSE s1, LAMBDA s2 :
             arrange(s2, s2.selmon)))

togglefullscr(s) ==
    LET sel == s.mons[s.selmon].sel
    IN  IF sel # NULL THEN setfullscreen(s, sel, ~s.clients[sel].isfullscreen) ELSE s

quit(s) == [s EXCEPT !.running = FALSE]
-----------------------------------------------------------------------------
(* Event handlers *)

\* Mutation of maprequest(): manage() is called without asking
\* wintoclient().
maprequest_again(s, w, a) ==
    IF a.override THEN s
    ELSE IF a.class = "Polybar" THEN managealtbar(s, w, a)
    ELSE manage(s, w, a)

\* maprequest(): a.override is wa.override_redirect, a.class the WM_CLASS
\* class of the window ("Polybar" contains altbarclass).
maprequest(s, w, a) ==
    IF a.override THEN s
    ELSE IF a.class = "Polybar" THEN managealtbar(s, w, a)
    ELSE IF wintoclient(s, w) = NULL THEN manage(s, w, a)
    ELSE s

\* traywin is never set, so the last branch of the code matches no window.
destroynotify(s, w) ==
    IF wintoclient(s, w) # NULL THEN unmanage(s, w, TRUE)
    ELSE IF s.mons[wintomon(s, w, <<>>)].barwin = w THEN unmanagealtbar(s, w)
    ELSE s

\* Mutation of unmapnotify(): send_event is not looked at.
unmapnotify_any_sender(s, w, send_event) ==
    IF wintoclient(s, w) # NULL THEN unmanage(s, w, FALSE)
    ELSE IF s.mons[wintomon(s, w, <<>>)].barwin = w THEN unmanagealtbar(s, w)
    ELSE s

\* setclientstate() on a synthetic unmap changes only WM_STATE of the window.
unmapnotify(s, w, send_event) ==
    IF wintoclient(s, w) # NULL
    THEN IF send_event THEN s ELSE unmanage(s, w, FALSE)
    ELSE IF s.mons[wintomon(s, w, <<>>)].barwin = w THEN unmanagealtbar(s, w)
    ELSE s

\* The loop of configurenotify() over the clients of every monitor, from
\* monitor mi and the rest list of its client list on.
RECURSIVE refitfullscreen(_, _, _)
refitfullscreen(s, mi, list) ==
    IF mi > Len(s.mons) THEN s
    ELSE IF list = <<>>
    THEN IF mi + 1 > Len(s.mons) THEN s
         ELSE refitfullscreen(s, mi + 1, s.mons[mi + 1].clients)
    ELSE refitfullscreen(IF s.clients[Head(list)].isfullscreen
                         THEN resizeclient(s, Head(list), s.mons[mi].mx, s.mons[mi].my,
                                           s.mons[mi].mw, s.mons[mi].mh)
                         ELSE s,
                         mi, Tail(list))

\* configurenotify() for the root window: width, height are the new
\* display size, info the Xinerama screens, ptr the pointer position.
configurenotify(s, width, height, info, ptr) ==
    Then(updategeom([s EXCEPT !.sw = width, !.sh = height], info, ptr), LAMBDA r :
    IF r.dirty \/ s.sw # width \/ s.sh # height
    THEN arrange(focus(refitfullscreen(r.s, 1, r.s.mons[1].clients), NULL), NULL)
    ELSE r.s)

\* The floating branch of configurerequest() on the Client record cl of a
\* client on monitor m.
configurefloating(cl, m, ev) ==
    Then(IF "CWX" \in ev.mask THEN [cl EXCEPT !.oldx = cl.x, !.x = m.mx + ev.x] ELSE cl,
         LAMBDA c1 :
    Then(IF "CWY" \in ev.mask THEN [c1 EXCEPT !.oldy = c1.y, !.y = m.my + ev.y] ELSE c1,
         LAMBDA c2 :
    Then(IF "CWWidth" \in ev.mask THEN [c2 EXCEPT !.oldw = c2.w, !.w = ev.w] ELSE c2,
         LAMBDA c3 :
    Then(IF "CWHeight" \in ev.mask THEN [c3 EXCEPT !.oldh = c3.h, !.h = ev.h] ELSE c3,
         LAMBDA c4 :
    Then(IF c4.x + c4.w > m.mx + m.mw /\ c4.isfloating
         THEN [c4 EXCEPT !.x = m.mx + (CDiv(m.mw, 2) - CDiv(WIDTH(c4), 2))]
         ELSE c4, LAMBDA c5 :
    IF c5.y + c5.h > m.my + m.mh /\ c5.isfloating
    THEN [c5 EXCEPT !.y = m.my + (CDiv(m.mh, 2) - CDiv(HEIGHT(c5), 2))]
    ELSE c5)))))

\* Mutation of configurerequest(): the geometry is taken from the request
\* whether or not the client floats.
configurerequest_any_client(s, w, ev) ==
    IF wintoclient(s, w) = NULL THEN s
    ELSE IF "CWBorderWidth" \in ev.mask
    THEN [s EXCEPT !.clients[w].bw = ev.bw]
    ELSE [s EXCEPT !.clients[w] = configurefloating(@, s.mons[s.clients[w].mon], ev)]

\* configurerequest() for window w; ev.mask is the set of value_mask bits.
configurerequest(s, w, ev) ==
    IF wintoclient(s, w) = NULL THEN s
    ELSE IF "CWBorderWidth" \in ev.mask
    THEN [s EXCEPT !.clients[w].bw = ev.bw]
    ELSE IF s.clients[w].isfloating
    THEN [s EXCEPT !.clients[w] = configurefloating(@, s.mons[s.clients[w].mon], ev)]
    ELSE s

\* Mutation of clientmessage(): _NET_WM_STATE_TOGGLE is taken for
\* _NET_WM_STATE_ADD.
clientmessage_toggle_adds(s, w, type, action, fs) ==
    IF wintoclient(s, w) = NULL THEN s
    ELSE IF type = "NetWMState"
    THEN IF fs THEN setfullscreen(s, w, action = 1 \/ action = 2) ELSE s
    ELSE IF type = "NetActiveWindow"
    THEN IF w # s.mons[s.selmon].sel /\ ~s.clients[w].isurgent
         THEN seturgent(s, w, TRUE) ELSE s
    ELSE s

\* clientmessage(): type is the message type, action is data.l[0] and fs
\* tells whether data.l[1] or data.l[2] is _NET_WM_STATE_FULLSCREEN.
clientmessage(s, w, type, action, fs) ==
    IF wintoclient(s, w) = NULL THEN s
    ELSE IF type = "NetWMState"
    THEN IF fs
         THEN setfullscreen(s, w, action = 1 \/ (action = 2 /\ ~s.clients[w].isfullscreen))
         ELSE s
    ELSE IF type = "NetActiveWindow"
    THEN IF w # s.mons[s.selmon].sel /\ ~s.clients[w].isurgent
         THEN seturgent(s, w, TRUE) ELSE s
    ELSE s

\* propertynotify() for a property that was set (not deleted); p holds the
\* new values the handler reads back from the window.
propertynotify(s, w, atom, p) ==
    IF wintoclient(s, w) = NULL THEN s
    ELSE IF atom = "WM_TRANSIENT_FOR"
    THEN IF ~s.clients[w].isfloating /\ p.trans # None
         THEN IF wintoclient(s, p.trans) # NULL
              THEN arrange([s EXCEPT !.clients[w].isfloating = TRUE], s.clients[w].mon)
              ELSE s
         ELSE s
    ELSE IF atom = "WM_NORMAL_HINTS" THEN updatesizehints(s, w, p.size)
    ELSE IF atom = "WM_HINTS" THEN updatewmhints(s, w, p.wmh)
    ELSE IF atom = "NetWMWindowType" THEN updatewindowtype(s, w, p.fullscreen, p.dialog)
    ELSE s

\* enternotify(): normal is mode == NotifyNormal && detail != NotifyInferior.
enternotify(s, w, normal, ptr) ==
    IF ~normal /\ w # Root THEN s
    ELSE Then(IF wintoclient(s, w) # NULL
              THEN s.clients[w].mon ELSE wintomon(s, w, ptr), LAMBDA mi :
         IF mi # s.selmon
         THEN focus([unfocus(s, s.mons[s.selmon].sel, 1) EXCEPT !.selmon = mi],
                    wintoclient(s, w))
         ELSE IF wintoclient(s, w) = NULL \/ w = s.mons[s.selmon].sel THEN s
         ELSE focus(s, w))

focusin(s, w) ==
    IF s.mons[s.selmon].sel # NULL /\ w # s.mons[s.selmon].sel
    THEN setfocus(s, s.mons[s.selmon].sel)
    ELSE s

\* setup(): the state before it has no monitor; updategeom() builds the
\* list and focus(NULL) gives the root the input focus.
setup(width, height, info, ptr) ==
    focus(updategeom([mons |-> <<>>, selmon |-> NULL, clients |-> <<>>,
                      sw |-> width, sh |-> height, bh |-> 0, combo |-> FALSE,
                      running |-> TRUE, xfocus |-> Root, netactive |-> None,
                      netclientlist |-> <<>>, grab |-> <<>>,
                      pointergrab |-> FALSE], info, ptr).s, NULL)


\* The handler table: the event types the initialiser names, each with its
\* handler; every other entry of the array is a null pointer.
handler ==
    [ButtonPress |-> "buttonpress", ButtonRelease |-> "keyrelease",
     ClientMessage |-> "clientmessage", ConfigureRequest |-> "configurerequest",
     ConfigureNotify |-> "configurenotify", DestroyNotify |-> "destroynotify",
     EnterNotify |-> "enternotify", FocusIn |-> "focusin",
     KeyRelease |-> "keyrelease", KeyPress |-> "keypress",
     MappingNotify |-> "mappingnotify", MapRequest |-> "maprequest",
     MotionNotify |-> "motionnotify", PropertyNotify |-> "propertynotify",
     UnmapNotify |-> "unmapnotify"]

\* The event types for which the loops of movemouse() and resizemouse()
\* call handler[ev.type], without the test for a null entry that run() makes.
LoopCalls == {"ConfigureRequest", "Expose", "MapRequest"}

\* The events the loop of movemouse() takes up to the ButtonRelease: a
\* MapRequest goes to its handler; a MotionNotify, each far enough in time
\* from the one before, carries x = ev.xmotion.x - x and y = ev.xmotion.y - y.
\* ocx and ocy are where client c was when the grab began. togglefloating()
\* acts on the selection of the selected monitor.
RECURSIVE movemotions(_, _, _, _, _)
movemotions(s, c, ocx, ocy, motions) ==
    IF motions = <<>> THEN s
    ELSE IF Head(motions).type = "MapRequest"
    THEN movemotions(maprequest(s, Head(motions).window, Head(motions).wa), c, ocx, ocy,
                     Tail(motions))
    ELSE
    Then(s.mons[s.selmon], LAMBDA m :
    Then(IF abs(m.wx - (ocx + Head(motions).x)) < snap THEN m.wx
         ELSE IF abs((m.wx + m.ww) - (ocx + Head(motions).x + WIDTH(s.clients[c]))) < snap
         THEN m.wx + m.ww - WIDTH(s.clients[c])
         ELSE ocx + Head(motions).x, LAMBDA nx :
    Then(IF abs(m.wy - (ocy + Head(motions).y)) < snap THEN m.wy
         ELSE IF abs((m.wy + m.wh) - (ocy + Head(motions).y + HEIGHT(s.clients[c]))) < snap
         THEN m.wy + m.wh - HEIGHT(s.clients[c])
         ELSE ocy + Head(motions).y, LAMBDA ny :
    Then(IF /\ ~s.clients[c].isfloating
            /\ (abs(nx - s.clients[c].x) > snap \/ abs(ny - s.clients[c].y) > snap)
         THEN togglefloating(s) ELSE s, LAMBDA s1 :
    movemotions(IF s1.clients[c].isfloating
                THEN resize(s1, c, nx, ny, s1.clients[c].w, s1.clients[c].h, 1)
                ELSE s1, c, ocx, ocy, Tail(motions))))))

\* movemouse(): grabbed tells whether XGrabPointer gave GrabSuccess, ptr
\* whether getrootptr() found the pointer on the screen of the root; the
\* events are those the loop takes up to the ButtonRelease. The loop takes
\* the ButtonRelease from the queue itself and leaves; handler[ButtonRelease]
\* is not called for it. XUngrabPointer follows the loop.
movemouse(s, grabbed, ptr, motions) ==
    LET c == s.mons[s.selmon].sel
    IN  IF c = NULL THEN s
        ELSE IF s.clients[c].isfullscreen THEN s
        ELSE IF ~grabbed THEN restack(s, s.selmon)
        ELSE IF ~ptr THEN [restack(s, s.selmon) EXCEPT !.pointergrab = TRUE]
        ELSE Then([movemotions([restack(s, s.selmon) EXCEPT !.pointergrab = TRUE],
                               c, s.clients[c].x, s.clients[c].y, motions)
                      EXCEPT !.pointergrab = FALSE], LAMBDA s1 :
             Then(recttomon(s1, s1.clients[c].x, s1.clients[c].y,
                            s1.clients[c].w, s1.clients[c].h), LAMBDA mi :
             IF mi # s1.selmon
             THEN focus([sendmon(s1, c, mi) EXCEPT !.selmon = mi], NULL)
             ELSE s1))

\* movemouse() when the loop takes an Expose event before the motions. The
\* call through a null entry of the table is undefined: the process is
\* killed there and the server drops its grabs, or the call comes back
\* (returns) and the loop goes on.
movemouseexpose(s, returns, motions) ==
    LET c == s.mons[s.selmon].sel
    IN  IF c = NULL THEN s
        ELSE IF s.clients[c].isfullscreen THEN s
        ELSE IF "Expose" \in DOMAIN handler \/ returns THEN movemouse(s, TRUE, TRUE, motions)
        ELSE [s EXCEPT !.running = FALSE, !.pointergrab = FALSE]

\* Mutation of the loop of cleanup(): only the clients of the selected
\* monitor are unmanaged.
RECURSIVE unmanagestacks_of_selmon(_, _)
unmanagestacks_of_selmon(s, mi) ==
    IF s.mons[s.selmon].stack = <<>> THEN s
    ELSE unmanagestacks_of_selmon(unmanage(s, Head(s.mons[s.selmon].stack), FALSE), mi)

\* The loop of cleanup() over the monitors from mi on: while the stack of a
\* monitor has a client, its head is unmanaged.
RECURSIVE unmanagestacks(_, _)
unmanagestacks(s, mi) ==
    IF mi > Len(s.mons) THEN s
    ELSE IF s.mons[mi].stack = <<>> THEN unmanagestacks(s, mi + 1)
    ELSE unmanagestacks(unmanage(s, Head(s.mons[mi].stack), FALSE), mi)

\* cleanup(), called by main() when run() has returned: every tag is
\* viewed (ui = ~0, the bit pattern of -1), every client is unmanaged,
\* cleanupmon() frees the monitors from the head of the list on and the
\* input focus goes to PointerRoot. selmon is left pointing at a freed
\* monitor.
cleanup(s) ==
    [unmanagestacks(view(s, -1), 1) EXCEPT !.mons = <<>>,
                                           !.xfocus = "PointerRoot",
                                           !.netactive = None]
-----------------------------------------------------------------------------
(* Inputs from the X server and the user *)

\* The i-th screen of a row of equal screens.
Screen(i) == [x |-> (i - 1) * 1920, y |-> 0, w |-> 1920, h |-> 1080]

\* Xinerama screen lists: one to MaxMons screens side by side, or the
\* first screen reported twice (a mirrored output).
Layouts ==
    {[i \in 1..k |-> Screen(i)] : k \in 1..MaxMons} \cup {<<Screen(1), Screen(1)>>}

RECURSIVE DisplayWidth(_)
DisplayWidth(info) ==
    IF info = <<>> THEN 0 ELSE MAX(Head(info).x + Head(info).w, DisplayWidth(Tail(info)))
RECURSIVE DisplayHeight(_)
DisplayHeight(info) ==
    IF info = <<>> THEN 0 ELSE MAX(Head(info).y + Head(info).h, DisplayHeight(Tail(info)))

\* Pointer positions: the middle of each screen, or <<>> when the query fails.
Pointers == {<<Screen(i).x + 960, 540>> : i \in 1..MaxMons} \cup {<<>>}

\* The tag key arguments: 1 << TAG for each tag.
TagArgs == {2^i : i \in 0..(NumTags - 1)}

NeverFocusHints == [present |-> TRUE, urgent |-> FALSE, hasinput |-> TRUE, input |-> FALSE]
InputHints == [present |-> TRUE, urgent |-> FALSE, hasinput |-> TRUE, input |-> TRUE]
UrgentHints == [present |-> TRUE, urgent |-> TRUE, hasinput |-> FALSE, input |-> FALSE]

\* A plain top-level window: no hints, no class that matches a rule.
PlainWindow ==
    [x |-> 100, y |-> 100, w |-> 400, h |-> 300, bw |-> 1, trans |-> None,
     class |-> "other", fullscreen |-> FALSE, dialog |-> FALSE,
     size |-> NoSizeHints, wmh |-> NoWMHints, override |-> FALSE]

\* The status bar window of class altbarclass, on top of the first screen.
BarWindow ==
    [PlainWindow EXCEPT !.x = 0, !.y = 0, !.w = 1920, !.h = 24, !.bw = 0,
                        !.class = "Polybar"]

\* Windows as clients map them in the monitor runs: plain, matching the
\* Firefox rule, override-redirect, or transient for a window.
MapInputs ==
    {PlainWindow, [PlainWindow EXCEPT !.class = "Firefox"],
     [PlainWindow EXCEPT !.override = TRUE]}
    \cup {[PlainWindow EXCEPT !.trans = t] : t \in Windows}

\* Windows as clients map them in the tag runs: plain or refusing the focus.
TagInputs == {PlainWindow, [PlainWindow EXCEPT !.wmh = NeverFocusHints]}

\* Windows as clients map them in the fullscreen runs: plain (tiled) or
\* a dialog (floating).
FullInputs == {PlainWindow, [PlainWindow EXCEPT !.dialog = TRUE]}

\* Configure requests: a new border width, or a move far to the left
\* together with a new width.
NoConfigure == [mask |-> {}, x |-> 0, y |-> 0, w |-> 0, h |-> 0, bw |-> 0]
ConfigureEvents ==
    {[NoConfigure EXCEPT !.mask = {"CWBorderWidth"}, !.bw = 2],
     [NoConfigure EXCEPT !.mask = {"CWX", "CWWidth"}, !.x = -1000, !.w = 300]}

\* Screens a tiled layout is squeezed into: a single screen of one of a few
\* widths and heights, down to sizes that leave no room for the gaps.
TileWidths == {30, 200}
TileHeights == {30, 200}
TileLayouts ==
    {<<[x |-> 0, y |-> 0, w |-> w, h |-> h]>> : w \in TileWidths, h \in TileHeights}

\* The windows of the tile runs: the server hands out window ids in order.
TileWindows == 1..MaxTiles

\* WM_NORMAL_HINTS with base, minimum and maximum size and increments and
\* no aspect: widths with the minimum and the maximum on and off the
\* increment grid, heights with the maximum absent or off the grid.
HintSets ==
    {[NoSizeHints EXCEPT !.flags = {"PBaseSize", "PMinSize", "PMaxSize", "PResizeInc"},
                         !.basew = b, !.incw = i, !.minw = mn, !.maxw = mx,
                         !.inch = 4, !.maxh = mh] :
        b \in {0, 10}, i \in {0, 4}, mn \in {0, 5, 30}, mx \in {0, 30, 42},
        mh \in {0, 42}}

\* Requested geometries: left of, inside and right of the screen, inside
\* and below it, in a few sizes, from the mouse (interact) or not.
Requests ==
    [x : {-40, 100, 2000}, y : {100, 1200}, w : {1, 36, 50}, h : {20, 50},
     interact : {0, 1}]

-----------------------------------------------------------------------------
(* The window manager as a state machine *)

Init ==
    /\ \E info \in Layouts, ptr \in Pointers :
          Start(setup(DisplayWidth(info), DisplayHeight(info), info, ptr))
    /\ probe = <<>>

\* Init on one screen.
InitOne ==
    /\ Start(setup(DisplayWidth(<<Screen(1)>>), DisplayHeight(<<Screen(1)>>),
                   <<Screen(1)>>, <<>>))
    /\ probe = <<>>

\* Every action is one pass of the loop of run(): while running, the
\* handler of the next event takes the state St to the state committed.
MapRequest(W, A) ==
    /\ running
    /\ \E w \in W, a \in A : Commit(maprequest(St, w, a))
    /\ UNCHANGED probe

\* The server redirects a map request only for a window that is not mapped;
\* every adoption of the bar appends to _NET_CLIENT_LIST, so the number of
\* entries the bar may have there is capped.
MapBar ==
    /\ running
    /\ \A mi \in 1..Len(mons) : mons[mi].barwin # BarWin
    /\ Count(netclientlist, BarWin) < MaxBarMaps
    /\ Commit(maprequest(St, BarWin, BarWindow))
    /\ UNCHANGED probe

DestroyNotify ==
    /\ running
    /\ \E w \in Windows \cup {BarWin} : Commit(destroynotify(St, w))
    /\ UNCHANGED probe

UnmapNotify ==
    /\ running
    /\ \E w \in Windows \cup {BarWin}, send_event \in BOOLEAN :
          Commit(unmapnotify(St, w, send_event))
    /\ UNCHANGED probe

ConfigureNotify(L, P) ==
    /\ running
    /\ \E info \in L, ptr \in P :
          Commit(configurenotify(St, DisplayWidth(info), DisplayHeight(info), info, ptr))
    /\ UNCHANGED probe

EnterNotify ==
    /\ running
    /\ \E w \in Windows \cup {Root}, normal \in BOOLEAN, ptr \in Pointers :
          Commit(enternotify(St, w, normal, ptr))
    /\ UNCHANGED probe

FocusIn ==
    /\ running
    /\ \E w \in Windows : Commit(focusin(St, w))
    /\ UNCHANGED probe

WMHints(H) ==
    /\ running
    /\ \E w \in Windows, wmh \in H :
          Commit(propertynotify(St, w, "WM_HINTS", [wmh |-> wmh]))
    /\ UNCHANGED probe

KeyRelease ==
    /\ running
    /\ Commit(keyrelease(St))
    /\ UNCHANGED probe

ComboView ==
    /\ running
    /\ \E ui \in TagArgs \cup {TAGMASK} : Commit(comboview(St, ui))
    /\ UNCHANGED probe

ComboTag ==
    /\ running
    /\ \E ui \in TagArgs \cup {TAGMASK} : Commit(combotag(St, ui))
    /\ UNCHANGED probe

ToggleView ==
    /\ running
    /\ \E ui \in TagArgs : Commit(toggleview(St, ui))
    /\ UNCHANGED probe

ToggleTag ==
    /\ running
    /\ \E ui \in TagArgs : Commit(toggletag(St, ui))
    /\ UNCHANGED probe

FocusStack ==
    /\ running
    /\ \E i \in {-1, 1} : Commit(focusstack(St, i))
    /\ UNCHANGED probe

FocusMon ==
    /\ running
    /\ \E i \in {-1, 1} : Commit(focusmon(St, i))
    /\ UNCHANGED probe

TagMon ==
    /\ running
    /\ \E i \in {-1, 1} : Commit(tagmon(St, i))
    /\ UNCHANGED probe

Zoom ==
    /\ running
    /\ Commit(zoom(St))
    /\ UNCHANGED probe

ClientMessage(W) ==
    /\ running
    /\ \E w \in W, action \in 0..2 :
          Commit(clientmessage(St, w, "NetWMState", action, TRUE))
    /\ UNCHANGED probe

ConfigureRequest(W) ==
    /\ running
    /\ \E w \in W, ev \in ConfigureEvents : Commit(configurerequest(St, w, ev))
    /\ UNCHANGED probe

ToggleFloating ==
    /\ running
    /\ Commit(togglefloating(St))
    /\ UNCHANGED probe

ToggleFullscr ==
    /\ running
    /\ Commit(togglefullscr(St))
    /\ UNCHANGED probe

\* nmaster has no upper limit in the code; the runs stop raising it one
\* past the number of windows.
IncNMaster ==
    /\ running
    /\ \E i \in {-1, 1} :
          /\ i = 1 => mons[selmon].nmaster <= MaxTiles
          /\ Commit(incnmaster(St, i))
    /\ UNCHANGED probe

\* The next window of the tile runs is mapped.
MapTile ==
    /\ running
    /\ \E w \in TileWindows :
          /\ \A v \in TileWindows : v < w <=> v \in DOMAIN clients
          /\ Commit(maprequest(St, w, PlainWindow))
    /\ UNCHANGED probe

\* Monitors and client lists: windows come and go while screens are
\* added and removed and clients are moved between monitors.
Next ==
    \/ MapRequest(Windows, MapInputs)
    \/ DestroyNotify
    \/ UnmapNotify
    \/ ConfigureNotify(Layouts, Pointers)
    \/ EnterNotify
    \/ FocusStack
    \/ FocusMon
    \/ TagMon
    \/ Zoom

Spec == Init /\ [][Next]_vars

\* The status bar: a bar window is adopted and released while plain
\* windows come and go and the screens change.
NextBar ==
    \/ MapRequest(Windows, {PlainWindow})
    \/ MapBar
    \/ DestroyNotify
    \/ UnmapNotify
    \/ ConfigureNotify(Layouts, Pointers)

SpecBar == Init /\ [][NextBar]_vars

\* Tags and focus on one screen.
NextTags ==
    \/ MapRequest(Windows, TagInputs)
    \/ DestroyNotify
    \/ WMHints({NeverFocusHints, InputHints})
    \/ FocusIn
    \/ KeyRelease
    \/ ComboView
    \/ ComboTag
    \/ ToggleView
    \/ ToggleTag

SpecTags == InitOne /\ [][NextTags]_vars


\* Fullscreen: one client, tiled or floating, enters and leaves fullscreen
\* while it is reconfigured and sent to the other monitor and the screens
\* change.
NextFull ==
    \/ MapRequest({1}, FullInputs)
    \/ ClientMessage({1})
    \/ ConfigureRequest({1})
    \/ ConfigureNotify(Layouts, {<<>>})
    \/ TagMon
    \/ ToggleFloating
    \/ ToggleFullscr

SpecFull == Init /\ [][NextFull]_vars

\* Tiling: windows are tiled on one screen of a few sizes, with and
\* without the bar, for every number of masters.
InitTile ==
    /\ \E info \in TileLayouts :
          Start(setup(DisplayWidth(info), DisplayHeight(info), info, <<>>))
    /\ probe = <<>>

NextTile ==
    \/ MapTile
    \/ MapBar
    \/ IncNMaster
    \/ ConfigureNotify(TileLayouts, {<<>>})

SpecTile == InitTile /\ [][NextTile]_vars

\* Size hints: window 1 is managed with one of the hint sets, with or
\* without the bar; probe holds a requested geometry and the geometries
\* applysizehints() made of it, each call fed the result of the one before.
InitHints ==
    /\ \E size \in HintSets, bar \in BOOLEAN :
          Start(maprequest(IF bar
                           THEN maprequest(setup(1920, 1080, <<Screen(1)>>, <<>>),
                                           BarWin, BarWindow)
                           ELSE setup(1920, 1080, <<Screen(1)>>, <<>>),
                           1, [PlainWindow EXCEPT !.size = size]))
    /\ \E req \in Requests : probe = [req |-> req, out |-> <<>>]

\* The geometry the next call of applysizehints() is given.
NextRequest == IF probe.out = <<>> THEN probe.req ELSE probe.out[Len(probe.out)]

ApplySizeHints ==
    /\ running
    /\ Len(probe.out) < 2
    /\ probe' = [probe EXCEPT !.out =
                    Append(@, [f \in {"x", "y", "w", "h"} |->
                                  applysizehints(St, 1, NextRequest.x, NextRequest.y,
                                                 NextRequest.w, NextRequest.h,
                                                 probe.req.interact)[f]])]
    /\ UNCHANGED <<mons, selmon, clients, sw, sh, bh, combo, running, xfocus,
                   netactive, netclientlist, grab, pointergrab>>

NextHints == ApplySizeHints

SpecHints == InitHints /\ [][NextHints]_vars

\* Chords: the tag keys are pressed and released while plain windows come
\* and go on one screen.
NextChord ==
    \/ MapRequest(Windows, {PlainWindow})
    \/ DestroyNotify
    \/ KeyRelease
    \/ ComboView
    \/ ComboTag
    \/ ToggleView
    \/ ToggleTag

SpecChord == InitOne /\ [][NextChord]_vars

\* The tile order: windows are mapped one after the other on one screen,
\* made floating and tiled again, focused in turn and zoomed.
MapInOrder(W) ==
    /\ running
    /\ \E w \in W :
          /\ \A v \in W : v < w <=> v \in DOMAIN clients
          /\ Commit(maprequest(St, w, PlainWindow))
    /\ UNCHANGED probe

NextZoom ==
    \/ MapInOrder(1..3)
    \/ ToggleFloating
    \/ FocusStack
    \/ Zoom

SpecZoom == InitOne /\ [][NextZoom]_vars

\* The events of a move gesture before the button is released: none, a
\* short motion, one past the snap distance, one onto the second screen,
\* and a window asking to be mapped before a motion past the snap distance.
Motions ==
    {<<>>}
    \cup {<<[type |-> "MotionNotify", x |-> d[1], y |-> d[2]]>> :
             d \in {<<8, 8>>, <<60, 40>>, <<2000, 0>>}}
    \cup {<<[type |-> "MapRequest", window |-> w, wa |-> PlainWindow],
             [type |-> "MotionNotify", x |-> 60, y |-> 40]>> : w \in Windows}

\* Button1 with the modifier is pressed on the window of the selection and
\* released after the motions. Where a floating client may be dragged to
\* has no limit in the code; the runs drag a client while it is tiled.
MoveMouse ==
    /\ running
    /\ mons[selmon].sel # NULL => ~clients[mons[selmon].sel].isfloating
    /\ \E grabbed \in BOOLEAN, ptr \in BOOLEAN, motions \in Motions :
          Commit(movemouse(St, grabbed, ptr, motions))
    /\ UNCHANGED probe

\* The same gesture with an Expose event sent to the window manager while
\* the button is down.
MoveMouseExpose ==
    /\ running
    /\ mons[selmon].sel # NULL => ~clients[mons[selmon].sel].isfloating
    /\ \E returns \in BOOLEAN, motions \in Motions :
          Commit(movemouseexpose(St, returns, motions))
    /\ UNCHANGED probe

\* Chords and gestures: windows are mapped, tags are viewed in chords, keys
\* are released and the selection is moved with the mouse.
NextGesture ==
    \/ MapRequest(Windows, {PlainWindow})
    \/ KeyRelease
    \/ ComboView
    \/ MoveMouse
    \/ MoveMouseExpose

SpecGesture == Init /\ [][NextGesture]_vars

\* Shutdown: run() leaves its loop when running is 0 and main() calls
\* cleanup(); probe keeps what the window manager held when it began.
Quit ==
    /\ running
    /\ Commit(quit(St))
    /\ UNCHANGED probe

Cleanup ==
    /\ ~running
    /\ mons # <<>>
    /\ Commit(cleanup(St))
    /\ probe' = [managed |-> DOMAIN clients, mons |-> Len(mons)]

NextQuit ==
    \/ MapRequest(Windows, MapInputs)
    \/ DestroyNotify
    \/ UnmapNotify
    \/ ConfigureNotify(Layouts, Pointers)
    \/ EnterNotify
    \/ FocusStack
    \/ FocusMon
    \/ TagMon
    \/ Zoom
    \/ Quit
    \/ Cleanup

SpecQuit == Init /\ [][NextQuit]_vars

\* Tags across monitors: window 1 is mapped, plain or matching the Firefox
\* rule, on one or two monitors, tags are viewed and given in chords and
\* toggled, and the selection is sent to the other monitor.
NextTagMon ==
    \/ MapRequest({1}, {PlainWindow, [PlainWindow EXCEPT !.class = "Firefox"]})
    \/ KeyRelease
    \/ ComboView
    \/ ComboTag
    \/ ToggleView
    \/ ToggleTag
    \/ FocusMon
    \/ TagMon

SpecTagMon == Init /\ [][NextTagMon]_vars
-----------------------------------------------------------------------------
(* Properties of the client lists and of the selection *)

\* C1: every managed client is exactly once in the client list and exactly
\* once in the focus stack of its own monitor, and is in no list of any
\* other monitor, after every handled event.
ListsExact ==
    \A c \in DOMAIN clients :
        /\ clients[c].mon \in 1..Len(mons)
        /\ \A mi \in 1..Len(mons) :
              /\ Count(mons[mi].clients, c) = (IF mi = clients[c].mon THEN 1 ELSE 0)
              /\ Count(mons[mi].stack, c) = (IF mi = clients[c].mon THEN 1 ELSE 0)

\* Two clients are managed on two different monitors, so that one of them
\* was sent across (tagmon) or followed the window it is transient for.
ListsExactWitness ==
    /\ Len(mons) = 2
    /\ \E c, d \in DOMAIN clients :
          /\ clients[c].mon = 1 /\ clients[d].mon = 2
          /\ mons[1].clients = <<c>> /\ mons[2].stack = <<d>>

\* C2: the selection of every monitor, selected or not, is NULL or a
\* visible member of the focus stack of that monitor.
SelVisibleInStack ==
    \A mi \in 1..Len(mons) :
        \/ mons[mi].sel = NULL
        \/ /\ Mem(mons[mi].stack, mons[mi].sel)
           /\ ISVISIBLE(St, mons[mi].sel)

\* The part of C2 the code keeps: the selection of a monitor is NULL or a
\* member of its focus stack, and on the selected monitor it is visible.
SelInStack ==
    \A mi \in 1..Len(mons) :
        \/ mons[mi].sel = NULL
        \/ /\ Mem(mons[mi].stack, mons[mi].sel)
           /\ mi = selmon => ISVISIBLE(St, mons[mi].sel)

-----------------------------------------------------------------------------
(* Properties of the focus and of the root properties *)

\* C3: when the selected monitor has a selection that accepts the input
\* focus, the window last given to XSetInputFocus is that client's window;
\* otherwise it is the root.
FocusFollowsSel ==
    IF mons[selmon].sel # NULL /\ ~clients[mons[selmon].sel].neverfocus
    THEN xfocus = mons[selmon].sel
    ELSE xfocus = Root

\* The first half of C3 alone: a selection that accepts the input focus is
\* the window last given to XSetInputFocus.
FocusOnSel ==
    (mons[selmon].sel # NULL /\ ~clients[mons[selmon].sel].neverfocus)
        => xfocus = mons[selmon].sel

\* C4: every fullscreen client has border width 0 and the geometry of the
\* screen rectangle of the monitor it belongs to.
FullscreenCoversMonitor ==
    \A c \in DOMAIN clients :
        clients[c].isfullscreen =>
            /\ clients[c].bw = 0
            /\ <<clients[c].x, clients[c].y, clients[c].w, clients[c].h>> =
                   <<mons[clients[c].mon].mx, mons[clients[c].mon].my,
                     mons[clients[c].mon].mw, mons[clients[c].mon].mh>>

\* The client lists of all monitors, in monitor order.
AllClients(s) == Flatten([mi \in 1..Len(s.mons) |-> s.mons[mi].clients])

\* C5: _NET_CLIENT_LIST holds the window of every managed client exactly
\* once and no other window.
ClientListExact ==
    /\ \A w \in DOMAIN clients : Count(netclientlist, w) = 1
    /\ Range(netclientlist) \subseteq DOMAIN clients

\* C6 as stated: after a manage, _NET_CLIENT_LIST read in order is the
\* concatenation of the client lists of the monitors.
ClientListOrderedAfterManage ==
    \A w \in Windows \ DOMAIN clients :
        manage(St, w, PlainWindow).netclientlist = AllClients(manage(St, w, PlainWindow))

\* C6 as the code has it: after an unmanage _NET_CLIENT_LIST read in order
\* is the concatenation of the client lists of the monitors; a manage
\* appends the new window to the property while attach() puts the client at
\* the head of its list, so that between events the property holds the
\* windows of the concatenation, each once, in an order of its own.
ClientListAfterManageUnmanage ==
    /\ \A c \in DOMAIN clients, destroyed \in BOOLEAN :
          unmanage(St, c, destroyed).netclientlist = AllClients(unmanage(St, c, destroyed))
    /\ \A w \in Windows \ DOMAIN clients, a \in MapInputs :
          ~a.override => manage(St, w, a).netclientlist = Append(netclientlist, w)
    /\ Len(netclientlist) = Len(AllClients(St))
    /\ \A w \in Range(AllClients(St)) : Count(netclientlist, w) = 1

\* Two clients were managed one after the other on one monitor: the
\* property lists them oldest first, the client list newest first.
ClientListOrderWitness ==
    /\ Len(netclientlist) = 2
    /\ netclientlist # AllClients(St)
    /\ mons[1].clients = <<netclientlist[2], netclientlist[1]>>

-----------------------------------------------------------------------------
(* Properties of the tag commands *)

\* C8: toggleview never leaves the viewed tagset of the selected monitor
\* empty and toggletag never leaves the tags of the selected client empty;
\* a call whose xor would be empty changes nothing at all.
ToggleRefusesEmpty ==
    \A ui \in TagArgs \cup {0, TAGMASK} :
        /\ CurTags(toggleview(St, ui).mons[selmon]) # 0
        /\ BitXor(CurTags(mons[selmon]), BitAnd(ui, TAGMASK)) = 0 => toggleview(St, ui) = St
        /\ mons[selmon].sel # NULL =>
              /\ toggletag(St, ui).clients[mons[selmon].sel].tags # 0
              /\ BitXor(clients[mons[selmon].sel].tags, BitAnd(ui, TAGMASK)) = 0
                    => toggletag(St, ui) = St

\* The selected monitor views all tags but the first and its selection has
\* exactly the tags in view (both were toggled), so that toggling any of
\* them is allowed and toggling all of them at once is refused.
ToggleRefusesWitness ==
    /\ CurTags(mons[selmon]) = TAGMASK - 1
    /\ mons[selmon].sel # NULL
    /\ clients[mons[selmon].sel].tags = TAGMASK - 1
    /\ toggleview(St, TAGMASK - 1) = St
    /\ toggletag(St, TAGMASK - 1) = St


-----------------------------------------------------------------------------
(* Properties of the tiled layout *)

\* The rectangle of a client with its border.
Rect(cl) == [x |-> cl.x, y |-> cl.y, w |-> WIDTH(cl), h |-> HEIGHT(cl)]

\* r lies in the window area of m inset by the gap on every side.
InsideInset(r, m) ==
    /\ r.x >= m.wx + m.gappx
    /\ r.y >= m.wy + m.gappx
    /\ r.x + r.w <= m.wx + m.ww - m.gappx
    /\ r.y + r.h <= m.wy + m.wh - m.gappx

\* The tiles of monitor mi in state t lie in the inset window area and
\* tiles of one column (both master or both stack) do not overlap
\* vertically.
TilesFit(t, mi) ==
    LET list == nexttiled(t, t.mons[mi].clients)
        nm   == t.mons[mi].nmaster
    IN  /\ \A i \in 1..Len(list) : InsideInset(Rect(t.clients[list[i]]), t.mons[mi])
        /\ \A i, j \in 1..Len(list) :
              (i < j /\ ((j <= nm) \/ (i > nm))) =>
                  t.clients[list[i]].y + HEIGHT(t.clients[list[i]]) <= t.clients[list[j]].y

\* The least width and height applysizehints() lets through.
LeastSize(s) == MAX(1, s.bh)

\* A column of k tiles of monitor m gives its first, and lowest, tile at
\* least the height lo, borders of width bw included.
ColumnRoom(m, k, bw, lo) ==
    k > 0 => ((m.wh - m.gappx) \div k) - m.gappx - 2 * bw >= lo

\* The window area of monitor mi has room for its n tiles: every width and
\* every height tile() computes is at least the least size.
TileRoom(s, mi) ==
    LET m  == s.mons[mi]
        n  == Len(nexttiled(s, s.mons[mi].clients))
        lo == LeastSize(s)
    IN  /\ m.wh > m.gappx
        /\ \A c \in Range(nexttiled(s, m.clients)) :
              /\ IF n > m.nmaster /\ m.nmaster > 0
                 THEN /\ ((m.ww * m.mfact) \div 100) - m.gappx - 2 * s.clients[c].bw >= lo
                      /\ m.ww - ((m.ww * m.mfact) \div 100) - 2 * m.gappx
                            - 2 * s.clients[c].bw >= lo
                 ELSE m.ww - 2 * m.gappx - 2 * s.clients[c].bw >= lo
              /\ ColumnRoom(m, MIN(n, m.nmaster), s.clients[c].bw, lo)
              /\ ColumnRoom(m, n - MIN(n, m.nmaster), s.clients[c].bw, lo)

\* C7 as stated: after tile(m), for every monitor size, nmaster and number
\* of tiled clients without size hints, the tiles lie in the inset window
\* area and tiles of one column do not overlap.
TilesInsideAlways ==
    \A mi \in 1..Len(mons) : TilesFit(tile(St, mi), mi)

\* C7 with the room it needs: after tile(m) the tiles lie in the inset
\* window area and tiles of one column do not overlap, when the window area
\* is large enough that every width and height tile() computes is at least
\* max(1, bh), the least size applysizehints() lets through.
TilesInsideWithRoom ==
    \A mi \in 1..Len(mons) : TileRoom(St, mi) => TilesFit(tile(St, mi), mi)

\* MaxTiles clients are tiled in two columns, two or more in the stack,
\* with the bar in place, and there is room for them.
TilesInsideWitness ==
    /\ Len(nexttiled(St, mons[1].clients)) = MaxTiles
    /\ mons[1].nmaster \in 1..(MaxTiles - 2)
    /\ bh > 0
    /\ TileRoom(St, 1)
    /\ tile(St, 1) = St

-----------------------------------------------------------------------------
(* Properties of fullscreen *)

\* The geometry of client c in state t.
Geom(t, c) == <<t.clients[c].x, t.clients[c].y, t.clients[c].w, t.clients[c].h>>

\* setfullscreen(c, 1) followed at once by setfullscreen(c, 0).
RoundTrip(s, c) == setfullscreen(setfullscreen(s, c, TRUE), c, FALSE)

\* C10 as stated: the round trip leaves isfloating, bw and the geometry of
\* a client that is not fullscreen as they were, and isfullscreen false.
FullscreenRoundTripRestores ==
    \A c \in DOMAIN clients :
        ~clients[c].isfullscreen =>
            /\ RoundTrip(St, c).clients[c].isfloating = clients[c].isfloating
            /\ RoundTrip(St, c).clients[c].bw = clients[c].bw
            /\ ~RoundTrip(St, c).clients[c].isfullscreen
            /\ Geom(RoundTrip(St, c), c) = Geom(St, c)

\* C10 as the code has it: the round trip leaves isfloating and bw of a
\* client that is not fullscreen as they were and isfullscreen false; its
\* geometry is the one arrange() of its monitor gives it from the state
\* before the first call, which is the geometry it had whenever the layout
\* was up to date.
FullscreenRoundTripArranges ==
    \A c \in DOMAIN clients :
        ~clients[c].isfullscreen =>
            /\ RoundTrip(St, c).clients[c].isfloating = clients[c].isfloating
            /\ RoundTrip(St, c).clients[c].bw = clients[c].bw
            /\ ~RoundTrip(St, c).clients[c].isfullscreen
            /\ Geom(RoundTrip(St, c), c) = Geom(arrange(St, clients[c].mon), c)
            /\ Geom(arrange(St, clients[c].mon), c) = Geom(St, c)
                  => Geom(RoundTrip(St, c), c) = Geom(St, c)

\* A tiled client went through fullscreen and back (oldbw holds the
\* border width setfullscreen saved, oldstate that it was tiled) and a
\* configure request has since changed its border width, so that its
\* geometry is no longer the one tile() gives it.
FullscreenRoundTripWitness ==
    \E c \in DOMAIN clients :
        /\ ~clients[c].isfullscreen /\ ~clients[c].isfloating
        /\ clients[c].oldbw = 0 /\ ~clients[c].oldstate
        /\ clients[c].bw = 2
        /\ Geom(arrange(St, clients[c].mon), c) # Geom(St, c)

-----------------------------------------------------------------------------
(* Properties of the size hints *)

\* C9 as stated: the geometry applysizehints() makes of its own result,
\* for the same client, is that result.
SizeHintsIdempotent ==
    Len(probe.out) = 2 => probe.out[2] = probe.out[1]

\* The minimum and the maximum size of cl, where given, are sizes the
\* hints leave as they are.
LimitsKept(cl) ==
    /\ \A v \in {cl.minw, cl.maxw} \ {0} : hintedsize(cl, v, 1)[1] = v
    /\ \A v \in {cl.minh, cl.maxh} \ {0} : hintedsize(cl, 1, v)[2] = v

\* The origin o is not left of or above the area a call with this
\* interact clamps to: the screen, or the window area of monitor m.
OriginKept(o, m, interact) ==
    IF interact = 1 THEN o.x >= 0 /\ o.y >= 0
    ELSE o.x >= m.wx /\ o.y >= m.wy

\* C9 with what it needs: the geometry applysizehints() makes of its own
\* result is that result, when the minimum and maximum size of the client
\* are sizes the hints leave as they are and the first result has its
\* origin not left of or above the area the call clamps to.
SizeHintsIdempotentOnGrid ==
    (/\ Len(probe.out) = 2
     /\ LimitsKept(clients[1])
     /\ OriginKept(probe.out[1], mons[clients[1].mon], probe.req.interact))
        => probe.out[2] = probe.out[1]

\* applysizehints() was applied twice for a client with increments, a
\* base, a minimum and a maximum size on the grid; the first call changed
\* the requested size and moved the origin into the window area.
SizeHintsWitness ==
    /\ Len(probe.out) = 2
    /\ clients[1].incw = 4 /\ clients[1].basew = 10
    /\ clients[1].minw = 30 /\ clients[1].maxw = 42 /\ clients[1].maxh = 0
    /\ LimitsKept(clients[1])
    /\ OriginKept(probe.out[1], mons[clients[1].mon], probe.req.interact)
    /\ probe.req.x = 2000
    /\ probe.out[1].x # probe.req.x
    /\ probe.out[1].w # probe.req.w
    /\ probe.out[1].h # probe.req.h

-----------------------------------------------------------------------------
(* Round trips of the tag commands *)

\* The tag masks: every non-empty set of tags.
TagMasks == 1..TAGMASK

\* The tagset of monitor m that is not in view.
OtherTags(m) == m.tagset[(1 - m.seltags) + 1]

\* view(A); view(B); view(A) from state s.
ViewABA(s, A, B) == view(view(view(s, A), B), A)

\* C11 as stated: for all non-zero masks A and B, view(A); view(B); view(A)
\* ends with A in view and B in the other buffer, and view(A) with A in
\* view changes nothing.
ViewRoundTripKeepsB ==
    \A A \in TagMasks, B \in TagMasks :
        /\ CurTags(ViewABA(St, A, B).mons[selmon]) = A
        /\ OtherTags(ViewABA(St, A, B).mons[selmon]) = B
        /\ CurTags(mons[selmon]) = A => view(St, A) = St

\* C11 as the code has it: view(A); view(B); view(A) ends with A in view;
\* the other buffer holds B when A and B differ, and when they are equal
\* the second and third call change nothing, so that it holds what the
\* first call left there; view(A) with A in view changes nothing.
ViewRoundTrip ==
    \A A \in TagMasks, B \in TagMasks :
        /\ CurTags(ViewABA(St, A, B).mons[selmon]) = A
        /\ A # B => OtherTags(ViewABA(St, A, B).mons[selmon]) = B
        /\ A = B => ViewABA(St, A, B) = view(St, A)
        /\ CurTags(mons[selmon]) = A => view(St, A) = St

\* Tag 2 alone is in view with tag 1 in the other buffer, a client is
\* selected, and the three calls for tag 1 and all tags end with tag 1 in
\* view and all tags in the other buffer, while the three calls for tag 2
\* alone leave tag 1 in the other buffer.
ViewRoundTripWitness ==
    /\ CurTags(mons[selmon]) = 2 /\ OtherTags(mons[selmon]) = 1
    /\ mons[selmon].sel # NULL
    /\ CurTags(ViewABA(St, 1, TAGMASK).mons[selmon]) = 1
    /\ OtherTags(ViewABA(St, 1, TAGMASK).mons[selmon]) = TAGMASK
    /\ ViewABA(St, 1, TAGMASK) # view(St, 1)
    /\ OtherTags(ViewABA(St, 2, 2).mons[selmon]) # 2

\* toggletag(T); toggletag(T) from state s.
ToggleTagTwice(s, T) == toggletag(toggletag(s, T), T)

\* C12 as stated: for the selected client c with tags t and every mask T
\* with t xor T non-zero, toggletag(T); toggletag(T) leaves c.tags = t,
\* for every view of the monitor.
ToggleTagTwiceRestores ==
    \A T \in TagMasks :
        LET c == mons[selmon].sel
        IN  (c # NULL /\ BitXor(clients[c].tags, T) # 0)
                => ToggleTagTwice(St, T).clients[c].tags = clients[c].tags

\* C12 as the code has it: toggletag(T); toggletag(T) leaves c.tags = t
\* when t xor T is non-zero and has a tag in view, so that c is still the
\* selection for the second call; when t xor T has no tag in view the
\* first call hides c, focus(NULL) moves the selection, and c keeps
\* t xor T.
ToggleTagTwiceWhileVisible ==
    \A T \in TagMasks :
        LET c == mons[selmon].sel
        IN  (c # NULL /\ BitXor(clients[c].tags, T) # 0) =>
               IF BitAnd(BitXor(clients[c].tags, T), CurTags(mons[selmon])) # 0
               THEN ToggleTagTwice(St, T).clients[c].tags = clients[c].tags
               ELSE ToggleTagTwice(St, T).clients[c].tags = BitXor(clients[c].tags, T)

\* Two clients are in view, the selected one with all tags, and toggling
\* the tag that is not in view twice changes its tags and restores them.
ToggleTagTwiceWitness ==
    /\ Cardinality(DOMAIN clients) = 2
    /\ CurTags(mons[selmon]) = 1
    /\ mons[selmon].sel # NULL
    /\ clients[mons[selmon].sel].tags = TAGMASK
    /\ toggletag(St, 2).clients[mons[selmon].sel].tags = 1
    /\ ToggleTagTwice(St, 2).clients[mons[selmon].sel].tags = TAGMASK

-----------------------------------------------------------------------------
(* Scenarios *)

\* C13: on one 1920x1080 monitor without bar, with gappx 10, mfact 0.55,
\* nmaster 1, borderpx 0 and windows without size hints, mapping a window
\* that is then the only tile gives it (10,10,1900,1060), and mapping a
\* window that is then the first of two tiles gives the master tile
\* (10,10,1046,1060) and the stack tile (1066,10,844,1060).
TileScenario ==
    \A w \in Windows \ DOMAIN clients :
        LET t    == maprequest(St, w, PlainWindow)
            list == nexttiled(maprequest(St, w, PlainWindow),
                              maprequest(St, w, PlainWindow).mons[1].clients)
        IN  (/\ Len(mons) = 1 /\ bh = 0
             /\ <<mons[1].mw, mons[1].mh>> = <<1920, 1080>>
             /\ <<mons[1].gappx, mons[1].mfact, mons[1].nmaster>> = <<10, 55, 1>>) =>
                /\ list # <<>> /\ list[1] = w
                /\ Len(list) = 1 => Geom(t, list[1]) = <<10, 10, 1900, 1060>>
                /\ Len(list) = 2 =>
                      /\ Geom(t, list[1]) = <<10, 10, 1046, 1060>>
                      /\ Geom(t, list[2]) = <<1066, 10, 844, 1060>>

\* Two windows were mapped one after the other and are both in view: the
\* second is the master tile, the first the stack tile.
TileScenarioWitness ==
    /\ Len(mons) = 1 /\ bh = 0
    /\ Len(nexttiled(St, mons[1].clients)) = 2
    /\ netclientlist = <<mons[1].clients[2], mons[1].clients[1]>>
    /\ Geom(St, mons[1].clients[1]) = <<10, 10, 1046, 1060>>
    /\ Geom(St, mons[1].clients[2]) = <<1066, 10, 844, 1060>>

\* The client zoom() promotes: the selection, or the tiled client after it
\* when the selection is the first tiled client.
Promoted(s) ==
    LET tiled == nexttiled(s, s.mons[s.selmon].clients)
    IN  IF s.mons[s.selmon].sel = tiled[1] THEN tiled[2] ELSE s.mons[s.selmon].sel

\* C14: zoom moves the selected tiled client, or the tiled client after it
\* when the selection is the first tiled client, to the head of the client
\* list and selects it, keeping the order of all other clients; it does
\* nothing when the selection is floating or is the only tiled client.
ZoomPromotes ==
    LET m     == mons[selmon]
        tiled == nexttiled(St, mons[selmon].clients)
    IN  m.sel # NULL =>
           IF clients[m.sel].isfloating \/ tiled = <<m.sel>>
           THEN zoom(St) = St
           ELSE /\ zoom(St).mons[selmon].clients =
                      <<Promoted(St)>> \o Remove(m.clients, Promoted(St))
                /\ zoom(St).mons[selmon].sel = Promoted(St)
                /\ \A mi \in 1..Len(mons) :
                      mi # selmon => zoom(St).mons[mi].clients = mons[mi].clients

\* Three tiles [a, b, c] with b selected, which zoom turns into [b, a, c].
ZoomPromotesWitness ==
    /\ Len(mons[selmon].clients) = 3
    /\ nexttiled(St, mons[selmon].clients) = mons[selmon].clients
    /\ mons[selmon].sel = mons[selmon].clients[2]
    /\ zoom(St).mons[selmon].clients =
          <<mons[selmon].clients[2], mons[selmon].clients[1], mons[selmon].clients[3]>>

\* zoom() is never entered with no selection and a tiled client in view.
ZoomHasSelection ==
    mons[selmon].sel = NULL => nexttiled(St, mons[selmon].clients) = <<>>

\* Windows transient for t as manage() may be handed them: of a class with
\* or without a rule, plain, a dialog or fullscreen.
TransientsFor(t) ==
    {[PlainWindow EXCEPT !.trans = t, !.class = cl, !.dialog = d, !.fullscreen = f] :
        cl \in {"other", "Firefox", "Gimp"}, d \in BOOLEAN, f \in BOOLEAN}

\* C15: manage of a window that is transient for a managed client t makes a
\* floating client with the tags and the monitor of t, whatever the rules
\* and whatever monitor is selected.
TransientFollowsParent ==
    \A w \in Windows \ DOMAIN clients, t \in DOMAIN clients :
        \A a \in TransientsFor(t) :
            /\ manage(St, w, a).clients[w].isfloating
            /\ manage(St, w, a).clients[w].tags = clients[t].tags
            /\ manage(St, w, a).clients[w].mon = clients[t].mon
            /\ manage(St, w, a).clients[t].mon = clients[t].mon
            /\ w \in Range(manage(St, w, a).mons[clients[t].mon].clients)

\* A window of the Firefox class is managed as a transient of a client that
\* is on the monitor not selected and has not the tags of the Firefox rule.
TransientFollowsParentWitness ==
    \E w \in Windows \ DOMAIN clients, t \in DOMAIN clients :
        /\ clients[t].mon # selmon
        /\ clients[t].tags # 2^(NumTags - 1)
        /\ manage(St, w, [PlainWindow EXCEPT !.trans = t, !.class = "Firefox"]).clients[w].mon
              = clients[t].mon

\* The state after a _NET_WM_STATE message for w with action code action
\* that names the fullscreen atom.
NetFullscreen(s, w, action) == clientmessage(s, w, "NetWMState", action, TRUE)

\* C16: a _NET_WM_STATE message with the fullscreen atom for a managed
\* client makes it fullscreen on action 1, not fullscreen on action 0 and
\* inverts isfullscreen on action 2, two toggles restoring it; a message
\* without the fullscreen atom, or for an unmanaged window, changes nothing.
NetWMStateFullscreen ==
    \A w \in Windows :
        IF w \in DOMAIN clients
        THEN /\ NetFullscreen(St, w, 1).clients[w].isfullscreen
             /\ ~NetFullscreen(St, w, 0).clients[w].isfullscreen
             /\ NetFullscreen(St, w, 2).clients[w].isfullscreen = ~clients[w].isfullscreen
             /\ NetFullscreen(NetFullscreen(St, w, 2), w, 2).clients[w].isfullscreen
                   = clients[w].isfullscreen
             /\ \A action \in 0..2 : clientmessage(St, w, "NetWMState", action, FALSE) = St
        ELSE \A action \in 0..2, fs \in BOOLEAN :
                clientmessage(St, w, "NetWMState", action, fs) = St

\* A fullscreen client is sent the toggle code and leaves fullscreen, while
\* another window is not managed.
NetWMStateFullscreenWitness ==
    /\ \E w \in DOMAIN clients :
          /\ clients[w].isfullscreen
          /\ ~NetFullscreen(St, w, 2).clients[w].isfullscreen
    /\ Windows \ DOMAIN clients # {}

\* The masks the key table hands to comboview() and combotag(): one tag,
\* or ~0, of which TAGMASK keeps every tag.
KeyMasks == {2^t : t \in 0..(NumTags - 1)} \cup {TAGMASK}

\* comboview(A) and then comboview(B), no release in between.
ViewChord(s, A, B) == comboview(comboview(s, A), B)

\* C17: with combo false, comboview(A) followed by comboview(B) with no
\* release in between ends with tagset[seltags] = A | B; seltags is toggled
\* once, by the first call, and the view shown before the chord is kept in
\* the other buffer.
ViewChordOrs ==
    ~combo =>
        \A A \in KeyMasks, B \in KeyMasks :
            /\ CurTags(ViewChord(St, A, B).mons[selmon]) = BitOr(A, B)
            /\ comboview(St, A).mons[selmon].seltags = 1 - mons[selmon].seltags
            /\ ViewChord(St, A, B).mons[selmon].seltags = 1 - mons[selmon].seltags
            /\ OtherTags(ViewChord(St, A, B).mons[selmon]) = CurTags(mons[selmon])
            /\ ViewChord(St, A, B).combo

\* Tag 2 alone is in view with a client; the chord of tag 1 and tag 2 shows
\* both tags and keeps tag 2 as the view to go back to.
ViewChordOrsWitness ==
    /\ ~combo
    /\ clients # <<>>
    /\ CurTags(mons[selmon]) = 2
    /\ CurTags(ViewChord(St, 1, 2).mons[selmon]) = 3
    /\ OtherTags(ViewChord(St, 1, 2).mons[selmon]) = 2

\* combotag(A) and then combotag(B), no release in between.
TagChord(s, A, B) == combotag(combotag(s, A), B)

\* C18: with combo false and a client c selected, combotag(A) followed by
\* combotag(B) with no release in between leaves c with tags = A | B and
\* changes the tags of no other client, for every view of the monitor.
TagChordOrs ==
    (~combo /\ mons[selmon].sel # NULL) =>
        \A A \in KeyMasks, B \in KeyMasks :
            /\ TagChord(St, A, B).clients[mons[selmon].sel].tags = BitOr(A, B)
            /\ \A d \in DOMAIN clients \ {mons[selmon].sel} :
                  TagChord(St, A, B).clients[d].tags = clients[d].tags

\* C19: every KeyRelease and every ButtonRelease the window manager
\* receives, the ButtonRelease that ends a move gesture included, leaves
\* combo false.
ReleaseResetsCombo ==
    /\ ~keyrelease(St).combo
    /\ \A motions \in Motions :
          (mons[selmon].sel # NULL /\ ~clients[mons[selmon].sel].isfullscreen)
             => ~movemouse(St, TRUE, TRUE, motions).combo

\* Client c is in no client list, in no stack and nobody's selection in s.
Gone(s, c) ==
    /\ c \notin DOMAIN s.clients
    /\ \A mi \in 1..Len(s.mons) :
          /\ c \notin Range(s.mons[mi].clients)
          /\ c \notin Range(s.mons[mi].stack)
          /\ s.mons[mi].sel # c

\* The client lists, stacks and selections of s and t are the same.
SameLists(s, t) ==
    /\ s.selmon = t.selmon
    /\ DOMAIN s.clients = DOMAIN t.clients
    /\ Len(s.mons) = Len(t.mons)
    /\ \A mi \in 1..Len(s.mons) :
          /\ s.mons[mi].clients = t.mons[mi].clients
          /\ s.mons[mi].stack = t.mons[mi].stack
          /\ s.mons[mi].sel = t.mons[mi].sel

\* C20: after a DestroyNotify or a non-synthetic UnmapNotify for a managed
\* window the client is in no monitor's client list, in no monitor's stack
\* and no monitor's selection; after a synthetic UnmapNotify the client is
\* still managed and all lists and selections are unchanged.
UnmanageRemoves ==
    \A w \in Windows :
        wintoclient(St, w) # NULL =>
            /\ Gone(destroynotify(St, w), w)
            /\ Gone(unmapnotify(St, w, FALSE), w)
            /\ wintoclient(unmapnotify(St, w, TRUE), w) = w
            /\ SameLists(unmapnotify(St, w, TRUE), St)

\* Two clients on one monitor; the selected one is destroyed and the other
\* becomes the selection, and a synthetic unmap of it changes nothing.
UnmanageRemovesWitness ==
    \E w \in DOMAIN clients :
        /\ mons[selmon].sel = w
        /\ Len(mons[selmon].clients) = 2
        /\ destroynotify(St, w).mons[selmon].sel \in DOMAIN clients \ {w}
        /\ Gone(destroynotify(St, w), w)
        /\ unmapnotify(St, w, TRUE) = St

\* ------------------------------------------------------------------
\* Map requests, the bar and the monitors.

\* What a window may answer when its map request is handled: any class,
\* override-redirect or not, transient for a window or not.
MapAnswers ==
    {[PlainWindow EXCEPT !.class = cl, !.override = o, !.trans = t] :
        cl \in {"other", "Firefox", "Gimp", "Polybar"}, o \in BOOLEAN,
        t \in Windows \cup {None}}

\* The client records, client lists and stacks of s and t are those of the
\* same windows in the same order.
SameClients(s, t) ==
    /\ DOMAIN s.clients = DOMAIN t.clients
    /\ Len(s.mons) = Len(t.mons)
    /\ \A mi \in 1..Len(s.mons) :
          /\ s.mons[mi].clients = t.mons[mi].clients
          /\ s.mons[mi].stack = t.mons[mi].stack

\* C21: a MapRequest creates no client for an override-redirect window nor
\* for a window of the alternate-bar class, and a MapRequest for a managed
\* window leaves every client list and stack unchanged.
MapRequestManagesOnce ==
    \A w \in Windows \cup {BarWin}, a \in MapAnswers :
        (a.override \/ a.class = "Polybar" \/ wintoclient(St, w) # NULL)
            => SameClients(maprequest(St, w, a), St)

\* One window is managed and asks to be mapped again; another, not managed,
\* is override-redirect or of the bar class.
MapRequestManagesOnceWitness ==
    \E w \in DOMAIN clients, v \in Windows \ DOMAIN clients :
        /\ SameClients(maprequest(St, w, PlainWindow), St)
        /\ v \notin DOMAIN maprequest(St, v, [PlainWindow EXCEPT !.override = TRUE]).clients
        /\ v \notin DOMAIN maprequest(St, v, [PlainWindow EXCEPT !.class = "Polybar"]).clients
        /\ v \in DOMAIN maprequest(St, v, PlainWindow).clients

\* Bar windows as they ask to be mapped: of two heights, on top of the
\* first or of the second screen.
BarAnswers ==
    {[BarWindow EXCEPT !.x = x, !.h = h] : x \in {0, 1920}, h \in {24, 40}}

\* Monitor m has given its whole screen rectangle to the windows.
WholeArea(m) == /\ m.wx = m.mx /\ m.wy = m.my /\ m.ww = m.mw /\ m.wh = m.mh

\* Monitor mi of state s holds no bar.
BarReleased(s, mi) ==
    /\ s.mons[mi].barwin = 0
    /\ s.mons[mi].bh = 0
    /\ WholeArea(s.mons[mi])

\* C22: after a bar window of height H is adopted on monitor m, m.bh = H,
\* m.wh = m.mh - H and m.wy = m.my + H; after the DestroyNotify or the
\* UnmapNotify of that bar m.barwin = 0, m.bh = 0 and the window area of m
\* is its screen rectangle.
BarTakesAndGivesArea ==
    /\ (\A mi \in 1..Len(mons) : mons[mi].barwin # BarWin) =>
          \A a \in BarAnswers :
              LET mi == recttomon(St, a.x, a.y, a.w, a.h)
                  m  == maprequest(St, BarWin, a).mons[recttomon(St, a.x, a.y, a.w, a.h)]
              IN  /\ m.barwin = BarWin
                  /\ m.bh = a.h
                  /\ m.wh = m.mh - a.h
                  /\ m.wy = m.my + a.h
                  /\ m.mh = mons[mi].mh /\ m.my = mons[mi].my
    /\ \A mi \in 1..Len(mons) :
          mons[mi].barwin = BarWin =>
              /\ BarReleased(destroynotify(St, BarWin), mi)
              /\ \A send_event \in BOOLEAN :
                    BarReleased(unmapnotify(St, BarWin, send_event), mi)

\* The bar is on a monitor that shows a client below it, and its destruction
\* gives the monitor its whole screen back.
BarTakesAndGivesAreaWitness ==
    \E mi \in 1..Len(mons) :
        /\ mons[mi].barwin = BarWin
        /\ mons[mi].clients # <<>>
        /\ mons[mi].wh = mons[mi].mh - 24
        /\ mons[mi].wy = mons[mi].my + 24
        /\ BarReleased(destroynotify(St, BarWin), mi)

\* Windows of no rule's class and without WM_TRANSIENT_FOR: plain, a dialog,
\* fullscreen, or refusing the input focus.
UnruledAnswers ==
    {[PlainWindow EXCEPT !.dialog = d, !.fullscreen = f, !.wmh = h] :
        d \in BOOLEAN, f \in BOOLEAN, h \in {NoWMHints, NeverFocusHints}}

\* C23: after a MapRequest for a new window that is not transient and
\* matches no rule, the new client is on the monitor that was selected, has
\* the tags that monitor shows, is the head of that monitor's client list
\* and stack and is the selection of the selected monitor.
NewClientOnSelmon ==
    \A w \in Windows \ DOMAIN clients, a \in UnruledAnswers :
        LET t == maprequest(St, w, a)
        IN  /\ t.clients[w].mon = selmon
            /\ t.clients[w].tags = CurTags(mons[selmon])
            /\ Head(t.mons[selmon].clients) = w
            /\ Head(t.mons[selmon].stack) = w
            /\ t.selmon = selmon
            /\ t.mons[t.selmon].sel = w

\* The second monitor is selected, holds a client and shows tag 2; the new
\* window becomes the head of the second monitor's lists before that client.
NewClientOnSelmonWitness ==
    \E w \in Windows \ DOMAIN clients :
        /\ selmon = 2
        /\ CurTags(mons[selmon]) = 2
        /\ Len(mons[2].clients) = 1
        /\ maprequest(St, w, PlainWindow).mons[2].clients = <<w>> \o mons[2].clients
        /\ maprequest(St, w, PlainWindow).mons[2].stack = <<w>> \o mons[2].stack
        /\ maprequest(St, w, PlainWindow).clients[w].tags = 2

\* Screen lists as Xinerama may report them after a change: those of the
\* runs, the second screen alone, and one screen of another size.
ScreenLists ==
    Layouts \cup {<<Screen(2)>>, <<[x |-> 0, y |-> 0, w |-> 1280, h |-> 1024]>>}

\* C24: when updategeom removes monitors the set of managed clients is
\* unchanged, every client of a removed monitor is on the head monitor
\* afterwards, every client's mon is a monitor of the list and selmon is a
\* monitor of the list.
RemovalKeepsClients ==
    \A info \in ScreenLists, ptr \in Pointers :
        Len(uniquegeoms(info, <<>>)) < Len(mons) =>
            LET t == updategeom(St, info, ptr).s
            IN  /\ Len(t.mons) = Len(uniquegeoms(info, <<>>))
                /\ DOMAIN t.clients = DOMAIN clients
                /\ \A c \in DOMAIN clients :
                      /\ clients[c].mon > Len(t.mons) => t.clients[c].mon = 1
                      /\ clients[c].mon <= Len(t.mons) => t.clients[c].mon = clients[c].mon
                      /\ t.clients[c].mon \in 1..Len(t.mons)
                      /\ c \in Range(t.mons[t.clients[c].mon].clients)
                      /\ c \in Range(t.mons[t.clients[c].mon].stack)
                /\ t.selmon \in 1..Len(t.mons)

\* The second monitor is selected and holds a client, the first holds
\* another; the second screen goes away.
RemovalKeepsClientsWitness ==
    /\ Len(mons) = 2
    /\ selmon = 2
    /\ mons[1].clients # <<>>
    /\ mons[2].clients # <<>>
    /\ updategeom(St, <<Screen(1)>>, <<>>).s.selmon = 1
    /\ Len(updategeom(St, <<Screen(1)>>, <<>>).s.mons[1].clients) = 2

\* The screen rectangle of monitor m as a Xinerama screen.
ScreenOf(m) == [x |-> m.mx, y |-> m.my, w |-> m.mw, h |-> m.mh]

\* C25: after updategeom is run with a non-empty list of unique screens U,
\* there are exactly |U| monitors and monitor i has the rectangle U[i],
\* whether the number of monitors grew, stayed or shrank.
MonitorsMatchScreens ==
    \A info \in ScreenLists, ptr \in Pointers :
        LET U == uniquegeoms(info, <<>>)
            t == updategeom(St, info, ptr).s
        IN  /\ Len(t.mons) = Len(U)
            /\ \A i \in 1..Len(U) : ScreenOf(t.mons[i]) = U[i]

\* The same for a number of monitors that grows or stays.
MonitorsMatchScreensUnlessFewer ==
    \A info \in ScreenLists, ptr \in Pointers :
        LET U == uniquegeoms(info, <<>>)
            t == updategeom(St, info, ptr).s
        IN  /\ Len(t.mons) = Len(U)
            /\ Len(mons) <= Len(U) => \A i \in 1..Len(U) : ScreenOf(t.mons[i]) = U[i]

\* The screen rectangles of the monitors of s, in order.
ScreensOf(s) == [i \in 1..Len(s.mons) |-> ScreenOf(s.mons[i])]

\* C26: whenever a ConfigureNotify on the root changes the monitor set (a
\* monitor added, removed or given a new rectangle), updategeom returns
\* non-zero, selmon is selected anew through wintomon(root), and the handler
\* runs focus(NULL) and arranges every monitor.
MonitorChangeIsReported ==
    \A info \in ScreenLists, ptr \in Pointers :
        LET r == updategeom(St, info, ptr)
            t == configurenotify(St, sw, sh, info, ptr)
        IN  ScreensOf(r.s) # ScreensOf(St) =>
                /\ r.dirty
                /\ r.s.selmon = wintomon([r.s EXCEPT !.selmon = 1], Root, ptr)
                /\ t = arrange(focus(t, NULL), NULL)

\* C27: between events the rectangle (x, y, w, h) of every managed client
\* lies within or intersects the screen rectangle of its monitor, floating
\* clients after a ConfigureRequest and clients sent to another monitor
\* included.
ClientsMeetTheirMonitor ==
    \A c \in DOMAIN clients :
        INTERSECT(clients[c].x, clients[c].y, clients[c].w, clients[c].h,
                  mons[clients[c].mon]) > 0

\* C28: between events a managed client is in the focused button-grab mode
\* exactly when it is the selection of the selected monitor; every other
\* client, on any monitor, is in the unfocused mode.
GrabFollowsSel ==
    \A c \in DOMAIN clients :
        grab[c] = (IF c = mons[selmon].sel THEN "focused" ELSE "unfocused")

\* C29: between events _NET_ACTIVE_WINDOW is absent or names the window of
\* the selection of the selected monitor, a managed client; a client the
\* selection has left is not the active window.
ActiveWindowIsSel ==
    netactive # None =>
        /\ netactive \in DOMAIN clients
        /\ netactive = mons[selmon].sel

\* C30: while a move or resize gesture is in progress ConfigureRequest,
\* Expose and MapRequest are each dispatched to a defined entry of the
\* handler table, and the handlers of DestroyNotify, UnmapNotify and
\* KeyPress do not run before the gesture has ended.
GestureDispatchDefined ==
    (mons[selmon].sel # NULL /\ ~clients[mons[selmon].sel].isfullscreen) =>
        /\ \A type \in LoopCalls : type \in DOMAIN handler
        /\ LoopCalls \cap {"DestroyNotify", "UnmapNotify", "KeyPress"} = {}

\* ------------------------------------------------------------------
\* Gestures, configure requests, shutdown and long-run invariants.

\* The isfloating flag client d has before the gesture, or is given by
\* manage() when it is mapped during the gesture.
FloatingBefore(d) ==
    IF d \in DOMAIN clients THEN clients[d].isfloating
    ELSE maprequest(St, d, PlainWindow).clients[d].isfloating

\* C31: during movemouse started on a tiled client c, a motion of more than
\* snap makes c itself floating and moves it; no client other than c has
\* its isfloating flag changed during the gesture, also when a MapRequest
\* is handled inside the loop; a gesture on a fullscreen client changes
\* nothing.
GestureFloatsItsClient ==
    LET c == mons[selmon].sel
    IN  c # NULL =>
        \A motions \in Motions :
            LET t == movemouse(St, TRUE, TRUE, motions)
            IN  IF clients[c].isfullscreen THEN t = St
                ELSE /\ \A d \in DOMAIN t.clients \ {c} :
                           t.clients[d].isfloating = FloatingBefore(d)
                     /\ (/\ ~clients[c].isfloating
                         /\ motions # <<>>
                         /\ motions[Len(motions)].x > snap)
                        => t.clients[c].isfloating

\* C32: between two events the window manager holds no pointer grab: every
\* way out of movemouse() after XGrabPointer succeeded has released it.
PointerGrabReleased == ~pointergrab

\* Requests of every value mask, for a place and a size the client does not
\* have and a border width it does not have.
AnyConfigureEvents ==
    {[mask |-> k, x |-> 37, y |-> 41, w |-> 333, h |-> 222, bw |-> 5] :
        k \in SUBSET {"CWX", "CWY", "CWWidth", "CWHeight", "CWBorderWidth"}}

\* C33: a ConfigureRequest for a managed client that does not float leaves
\* its x, y, w and h and everything but its border width as they were, and
\* the border width changes only when the request carries CWBorderWidth.
TiledIgnoresConfigureRequest ==
    \A w \in DOMAIN clients :
        ~clients[w].isfloating =>
            \A ev \in AnyConfigureEvents :
                LET t == configurerequest(St, w, ev)
                IN  /\ [t EXCEPT !.clients[w].bw = clients[w].bw] = St
                    /\ t.clients[w].bw =
                          IF "CWBorderWidth" \in ev.mask THEN ev.bw ELSE clients[w].bw

\* A tiled client whose border width a ConfigureRequest has set.
TiledIgnoresConfigureRequestWitness ==
    \E w \in DOMAIN clients :
        /\ ~clients[w].isfloating
        /\ ~clients[w].isfullscreen
        /\ clients[w].bw = 2
        /\ mons[clients[w].mon].sel = w

\* C34: running goes to 0 only by quit(); once it is 0 the only step taken
\* is cleanup(), which leaves every monitor without a client in its stack
\* and its list, no client managed and no monitor in the list.
QuitThenCleanup ==
    [][/\ (running /\ ~running') => St' = quit(St)
       /\ ~running =>
             LET t == unmanagestacks(view(St, -1), 1)
             IN  /\ Len(t.mons) = Len(mons)
                 /\ \A mi \in 1..Len(t.mons) :
                       t.mons[mi].stack = <<>> /\ t.mons[mi].clients = <<>>
                 /\ t.clients = <<>>
                 /\ St' = cleanup(St)
                 /\ mons' = <<>>
                 /\ clients' = <<>>]_vars

\* cleanup() has run on two monitors that held every window.
QuitThenCleanupWitness ==
    /\ ~running
    /\ mons = <<>>
    /\ probe # <<>>
    /\ probe.managed = Windows
    /\ probe.mons = 2

\* The tags of every client and both tagsets of every monitor of s are
\* non-empty sets of tags.
ValidTags(s) ==
    /\ \A w \in DOMAIN s.clients : s.clients[w].tags \in 1..TAGMASK
    /\ \A mi \in 1..Len(s.mons) :
          s.mons[mi].tagset[1] \in 1..TAGMASK /\ s.mons[mi].tagset[2] \in 1..TAGMASK

\* Arguments of the tag commands: no tag, every set of tags, bits above
\* TAGMASK, and ~0.
AnyTagArgs == 0..(2 * TAGMASK + 1) \cup {-1}

\* C35: in every reachable state the tags of every client and both tagsets
\* of every monitor are non-zero subsets of TAGMASK, and they are again
\* after manage() of a window of any kind, after view, comboview, combotag,
\* tag, toggleview and toggletag with any argument and after sendmon() of
\* the selection to any monitor.
TagsAreValid ==
    /\ ValidTags(St)
    /\ \A ui \in AnyTagArgs :
          /\ ValidTags(view(St, ui))
          /\ ValidTags(comboview(St, ui))
          /\ ValidTags(combotag(St, ui))
          /\ ValidTags(tag(St, ui))
          /\ ValidTags(toggleview(St, ui))
          /\ ValidTags(toggletag(St, ui))
    /\ \A w \in Windows \ DOMAIN clients, a \in MapInputs :
          ValidTags(maprequest(St, w, a))
    /\ mons[selmon].sel # NULL =>
          \A mi \in 1..Len(mons) : ValidTags(sendmon(St, mons[selmon].sel, mi))

\* A client that a chord gave every tag and that was sent to the second
\* monitor, where chords have filled both tagsets.
TagsAreValidWitness ==
    /\ Len(mons) = 2
    /\ \E w \in DOMAIN clients : clients[w].mon = 2 /\ clients[w].tags = TAGMASK
    /\ mons[2].tagset[1] = TAGMASK
    /\ mons[2].tagset[2] = 2
    /\ mons[1].tagset[1] = 2

FullscreenFloats(s) ==
    /\ \A w \in DOMAIN s.clients : s.clients[w].isfullscreen => s.clients[w].isfloating
    /\ \A mi \in 1..Len(s.mons) :
          \A k \in 1..Len(nexttiled(s, s.mons[mi].clients)) :
              ~s.clients[nexttiled(s, s.mons[mi].clients)[k]].isfullscreen

\* C37: every fullscreen client floats, in every reachable state and after
\* togglefloating, a PropertyNotify for WM_TRANSIENT_FOR or for the window
\* type, manage() of a window of any kind and a move gesture.
FullscreenStaysFloating ==
    /\ FullscreenFloats(St)
    /\ FullscreenFloats(togglefloating(St))
    /\ \A w \in DOMAIN clients :
          /\ \A t \in Windows \cup {None} :
                FullscreenFloats(propertynotify(St, w, "WM_TRANSIENT_FOR", [trans |-> t]))
          /\ \A f \in BOOLEAN, d \in BOOLEAN :
                FullscreenFloats(propertynotify(St, w, "NetWMWindowType",
                                                [fullscreen |-> f, dialog |-> d]))
    /\ \A w \in Windows \ DOMAIN clients :
          \A a \in UnruledAnswers \cup UNION {TransientsFor(t) : t \in DOMAIN clients} :
              FullscreenFloats(maprequest(St, w, a))
    /\ \A motions \in Motions : FullscreenFloats(movemouse(St, TRUE, TRUE, motions))

\* The selection was tiled, is fullscreen and floats, and togglefloating()
\* leaves it so.
FullscreenStaysFloatingWitness ==
    \E w \in DOMAIN clients :
        /\ mons[selmon].sel = w
        /\ clients[w].isfullscreen
        /\ ~clients[w].oldstate
        /\ clients[w].isfloating
        /\ togglefloating(St) = St

\* C38: every monitor without a bar window has bh = 0 and a window area
\* equal to its screen rectangle.
BarlessMonitorIsWhole ==
    \A mi \in 1..Len(mons) :
        mons[mi].barwin = 0 =>
            /\ mons[mi].bh = 0
            /\ mons[mi].wx = mons[mi].mx
            /\ mons[mi].wy = mons[mi].my
            /\ mons[mi].ww = mons[mi].mw
            /\ mons[mi].wh = mons[mi].mh

\* The states one event leads to while client c is fullscreen in s: another
\* request to add the fullscreen state, a ConfigureRequest for c, or a
\* ConfigureNotify on the root.
WhileFullscreen(s, c) ==
    {clientmessage(s, c, "NetWMState", 1, TRUE)}
    \cup {configurerequest(s, c, ev) : ev \in ConfigureEvents}
    \cup {configurenotify(s, DisplayWidth(info), DisplayHeight(info), info, <<>>) :
             info \in Layouts}

\* C39: a floating client that enters fullscreen with geometry G (a
\* geometry arrange() leaves alone) and leaves it after one event handled
\* while it was fullscreen has geometry G again, floats and has the border
\* width it had.
FullscreenKeepsSavedGeometry ==
    \A c \in DOMAIN clients :
        (/\ clients[c].isfloating
         /\ ~clients[c].isfullscreen
         /\ Geom(arrange(St, clients[c].mon), c) = Geom(St, c)) =>
            \A g \in WhileFullscreen(setfullscreen(St, c, TRUE), c) :
                LET t == setfullscreen(g, c, FALSE)
                IN  /\ Geom(t, c) = Geom(St, c)
                    /\ t.clients[c].isfloating
                    /\ t.clients[c].bw = clients[c].bw

====
